---- MODULE Spec2Model ----
(***************************************************************************)
(* A model of toy-browser: the four-worker rendering pipeline of           *)
(* src/src/thread.rs (PageThread), the display-list slot of                *)
(* src/src/raster.rs shared with the window event loop, the process-wide   *)
(* font layout context of src/src/layout.rs, the cascade and the style     *)
(* tree of src/src/style.rs, the values of src/src/css.rs, and the box     *)
(* tree and block layout of src/src/layout.rs on f32.                      *)
(*                                                                         *)
(* Spec / FairSpec : the pipeline (PageThread::new, start_window, draw).   *)
(* SpecCascade     : style::specified_values applied to bounded inputs.    *)
(* SpecStyleTree   : StyleTree::get_style_tree and StyledNode::get_val.    *)
(* SpecBoxTree     : get_layout_tree_struct on styled trees.               *)
(* SpecDisplay     : style tree and box tree of documents whose display    *)
(*                   declarations are source text.                         *)
(* SpecWidth       : LayoutBox::calc_block_width on one box.               *)
(* SpecLayout      : box tree and LayoutBox::calc_layout of block trees.   *)
(* SpecInline      : the same on trees with text: Lines and their layout.  *)
(* SpecSelectorList: specified_values on rules with selector lists.        *)
(* SpecDisplayList : box tree and raster::get_display_list.                *)
(* SpecJoin / FairSpecJoin : the workers and PageThread::join.             *)
(***************************************************************************)
EXTENDS Integers, Sequences, FiniteSets, TLC

\* ------------------------------------------------------------------ bounds
\* Number of markup strings sent on html_sender in one run.
MaxSubmit == 2
\* Content width of the viewport box handed to PageThread::new.
ViewportWidth == 3
\* Rules in one <style> block stylesheet of the cascade's inputs.
MaxRules == 2
\* Children of the root element of a document of the style tree's inputs.
MaxChildren == 2
\* Children of the root of a styled tree of the box tree's inputs.
MaxBoxChildren == 3

\* Option<T>: None, Some(v) and unwrap.
None == <<>>
Some(v) == <<v>>
Unwrap(o) == o[1]

\* ------------------------------------------------------------------ state
VARIABLES
  html_sender,       \* PageThread.html_sender: "alive" or "dropped"
  sent,              \* history: the markup of every send, in order (index = submission id)
  sendResult,        \* history: what each send returned, "Ok" or "Err"
  htmlQ,             \* channel html_sender -> html_recevier   (String)
  styleQ,            \* channel style_sender -> style_recevier (Document)
  layoutQ,           \* channel layout_sender -> layout_recevier (StyleTree)
  rasterQ,           \* channel raster_sender -> raster_recevier (LayoutTree)
  status,            \* worker -> "running" | "exited" | "panicked"
  cur,               \* worker -> the message its loop body holds, or None
  rasterPc,          \* position of raster_thread inside its loop body
  layout_box,        \* raster_thread: result of get_layout_tree, or None
  document_store,    \* Arc<Mutex<Option<Document>>> of style_thread
  raster_window,     \* Mutex<RasterWindow>: [holder, poisoned]
  display_lock,      \* Mutex of RasterWindow.display_commands: its holder
  display_commands,  \* the display-list slot: Vec<DisplayCommand>
  TEXT_LAYOUTS,      \* static mut TEXT_LAYOUTS: Vec<TextLayout>
  mainPc,            \* main thread: "init" | "window" | "idle" | "draw" | "panicked"
  drawIdx,           \* draw_commands: index of the next command of the iteration
  seen,              \* draw_commands: the commands this draw has iterated over
  handled,           \* history: worker -> ids of the messages it completed
  writes,            \* history: the slot writes, in order: [id, list]
  joinPc,            \* PageThread::join: "none" | the handle it waits on | "Ok" | "Err"
  element,           \* cascade: the ElementData being styled
  stylesheets,       \* cascade: Document.stylesheets (index 1 is the default sheet)
  style,             \* cascade: the NodeStyle specified_values returned
  cascadePc,         \* cascade: "input" | "styled"
  doc,               \* trees: the dom::Document being styled, or None
  tree_init_box,     \* trees: the Box handed to get_layout_tree (its content width)
  styled,            \* trees: the StyledNodes of get_style_tree, by identity
  looked_up,         \* trees: the last get_val call, [id, name, val], or None
  root_box,          \* trees: the LayoutBox of get_layout_tree_struct / calc_layout
  treePc             \* trees: "off" | "input" | "styled" | "boxes" | "laid" | "rastered" | "panicked"

pipeVars == <<html_sender, sent, sendResult, htmlQ, styleQ, layoutQ, rasterQ,
              status, cur, rasterPc, layout_box, document_store, raster_window,
              display_lock, display_commands, TEXT_LAYOUTS, mainPc, drawIdx,
              seen, handled, writes, joinPc>>
cascadeVars == <<element, stylesheets, style, cascadePc>>
treeVars == <<doc, tree_init_box, styled, looked_up, root_box, treePc>>
vars == <<pipeVars, cascadeVars, treeVars,
                 joinPc>>

Workers == {"html", "style", "layout", "raster"}

Last(s) == s[Len(s)]
Range(s) == {s[i] : i \in DOMAIN s}

\* ---------------------------------------------------------------- markup
\* A markup string, abstracted to what the pipeline does with it: the text
\* runs of its body in document order (a text run n is n glyphs long), and
\* where its syntax is broken: "markup" (an assert! of html::Parser or of
\* css::Parser inside a <style> block fails), "inline" (a style attribute
\* that css::parse_inline_style rejects) or "none".
Markups ==
  { [texts |-> <<2, 2>>, error |-> "none"],
    [texts |-> <<1>>,    error |-> "none"],
    [texts |-> <<1>>,    error |-> "markup"],
    [texts |-> <<1>>,    error |-> "inline"] }

\* (mutant) the parser recovers from a syntax error and returns what it has.
html_parse_recovers(markup) == FALSE

\* html::parse panics on a syntax error: every check of the parser is an
\* assert! or an unwrap (html.rs 91-100, 129-144; css.rs 126, 190-211, 243).
html_parse_panics(markup) == markup.error = "markup"

\* html::parse: the Document of a markup string (its root's text runs, and
\* whether an element carries a malformed style attribute).
html_parse(id, markup) ==
  [id |-> id, texts |-> markup.texts,
   style_attr |-> IF markup.error = "inline" THEN "malformed" ELSE "wellformed"]

\* ------------------------------------------------------------- channels
\* (mutant) a rendezvous-like bounded channel: a send waits while a message
\* is queued.
send_ready_bounded(q) == Len(q) < 1

\* mpsc::channel() is asynchronous and unbounded: a send never waits.
send_ready(q) == TRUE

\* (mutant) the newest message comes out first.
recv_lifo(q) == [msg |-> q[Len(q)], rest |-> SubSeq(q, 1, Len(q) - 1)]

\* (mutant) the newest message comes out and the older ones are discarded.
recv_coalesce(q) == [msg |-> q[Len(q)], rest |-> <<>>]

\* Receiver::recv / the for loop over a Receiver: messages come out in the
\* order they were sent.
recv(q) == [msg |-> Head(q), rest |-> Tail(q)]

\* A Receiver lives as long as the worker that owns it runs.
receiver_alive(w) == status[w] = "running"

ProcessAlive == mainPc # "panicked"

\* ------------------------------------------------- font layout context
\* TextLayout::default(): a fresh fontdue Layout, holding no glyph.
TextLayout_default == [glyphs |-> <<>>]

\* (mutant) the layout keeps the glyphs of the text measured before.
layout_reset_keeps(tl) == tl

\* Layout::reset(&LayoutSettings): the layout forgets every glyph.
layout_reset(tl) == [tl EXCEPT !.glyphs = <<>>]

\* Where Layout::append puts the next glyph: after the last one it holds.
pen_x(tl) ==
  IF tl.glyphs = <<>> THEN 0 ELSE Last(tl.glyphs).x + Last(tl.glyphs).width

\* Layout::append(&fonts, &TextStyle::new(text, 16.0, 0)): one GlyphPosition
\* per character of the text run, laid out on one line from the pen position.
layout_append(tl, text) ==
  [tl EXCEPT !.glyphs =
     @ \o [i \in 1..text |-> [key |-> text, x |-> pen_x(tl) + (i - 1), width |-> 1]]]

\* LayoutBox::calc_text_layout: reset the shared layout, append the text,
\* and measure it from its last glyph.
calc_text_layout(tl, text) ==
  LET appended == layout_append(layout_reset(tl), text)
      last_text == Last(appended.glyphs)
  IN  [ctx |-> appended,
       w   |-> last_text.x + last_text.width,
       h   |-> 1]

\* ------------------------------------------------------------- layout
\* The viewport box PageThread::new captures (its content rectangle).
viewport == [x |-> 0, y |-> 0, width |-> ViewportWidth, height |-> 1]

RECURSIVE SumWidth(_)
SumWidth(children) ==
  IF children = <<>> THEN 0 ELSE Head(children).w + SumWidth(Tail(children))

\* LayoutBox::get_line_rest_width of a Line box.
get_line_rest_width(line, width) == width - SumWidth(line)

\* LayoutBox::calc_block_line_box on the text children of one block: each
\* AnonymousInline is measured with the shared font context and put in the
\* last Line if it fits there, else in a new Line.
RECURSIVE calc_block_line_box(_, _, _, _)
calc_block_line_box(texts, ctx, lines, width) ==
  IF texts = <<>> THEN [ctx |-> ctx, lines |-> lines]
  ELSE
    LET m == calc_text_layout(ctx, Head(texts))
        glyphs == m.ctx.glyphs    \* text_layout.layout.glyphs().clone()
        with_line == IF lines = <<>> THEN << <<>> >> ELSE lines
        rest_width == get_line_rest_width(Last(with_line), width)
        child(x) == [text |-> Head(texts), x |-> x, y |-> 0,
                     w |-> m.w, h |-> m.h, glyphs |-> glyphs]
        placed ==
          IF rest_width >= m.w
          THEN [with_line EXCEPT ![Len(with_line)] = Append(@, child(width - rest_width))]
          ELSE Append(with_line, << child(0) >>)
    IN  calc_block_line_box(Tail(texts), m.ctx, placed, width)

\* LayoutBox::calc_line_box_layout takes the maximum of the children's
\* heights with unwrap(): it panics on a Line without children.
calc_line_box_layout_panics(lines) == \E k \in DOMAIN lines : lines[k] = <<>>

RECURSIVE MaxHeight(_)
MaxHeight(children) ==
  IF Len(children) = 1 THEN Head(children).h
  ELSE LET r == MaxHeight(Tail(children))
       IN  IF Head(children).h >= r THEN Head(children).h ELSE r

\* LayoutBox::calc_block_children + calc_line_box_layout: the Lines are
\* stacked from the containing block's running content height, and every
\* child is moved by its Line's origin.
RECURSIVE calc_block_children(_, _, _, _)
calc_block_children(lines, k, containing, out) ==
  IF k > Len(lines) THEN out
  ELSE
    LET max_h == MaxHeight(lines[k])
        line_x == containing.x
        line_y == containing.y + containing.height
        moved == [i \in DOMAIN lines[k] |->
                    [lines[k][i] EXCEPT !.x = @ + line_x, !.y = @ + line_y]]
    IN  calc_block_children(lines, k + 1,
                            [containing EXCEPT !.height = @ + max_h],
                            out \o moved)

\* StyleTree::get_style_tree panics when specified_values meets a style
\* attribute that parse_inline_style rejects (style.rs 142-145).
get_style_tree_panics(document) == document.style_attr = "malformed"

\* (mutant) a TextLayout is pushed on every call.
init_text_layouts_always(layouts) == Append(layouts, TextLayout_default)

\* get_layout_tree's lazy initialisation of TEXT_LAYOUTS: a TextLayout is
\* pushed while the vector is empty.
init_text_layouts(layouts) ==
  IF Len(layouts) = 0 THEN Append(layouts, TextLayout_default) ELSE layouts

\* layout::get_text_layout: panics while TEXT_LAYOUTS is empty, else hands
\* out its first element.
get_text_layout_panics(layouts) == Len(layouts) = 0
get_text_layout(layouts) == layouts[1]

\* LayoutTree::get_layout_tree(viewport): style tree, lazy initialisation of
\* TEXT_LAYOUTS, init_box.content.height = 0, box tree and layout.  The
\* document's root is a block whose children are its text runs.  Returns
\* whether the call panicked, TEXT_LAYOUTS afterwards, and the laid-out
\* AnonymousInline boxes in box-tree order.
get_layout_tree(document, init_box_in, layouts) ==
  IF get_style_tree_panics(document)
  THEN [panic |-> TRUE, layouts |-> layouts, boxes |-> <<>>]
  ELSE
    LET inited == init_text_layouts(layouts)
        init_box == [init_box_in EXCEPT !.height = 0]
        \* root block: content.y = containing.y + containing.height, width = W
        root == [x |-> init_box.x, y |-> init_box.y + init_box.height,
                 width |-> init_box.width, height |-> 0]
    IN  IF document.texts # <<>> /\ get_text_layout_panics(inited)
        THEN [panic |-> TRUE, layouts |-> inited, boxes |-> <<>>]
        ELSE
          LET packed == calc_block_line_box(document.texts, get_text_layout(inited),
                                            <<>>, root.width)
              used == [inited EXCEPT ![1] = packed.ctx]
          IN  IF calc_line_box_layout_panics(packed.lines)
              THEN [panic |-> TRUE, layouts |-> used, boxes |-> <<>>]
              ELSE [panic |-> FALSE, layouts |-> used,
                    boxes |-> calc_block_children(packed.lines, 1, root, <<>>)]

\* raster::get_display_list: one Text command per AnonymousInline box (the
\* boxes of this document have no border and no background).
get_display_list(boxes) ==
  [i \in DOMAIN boxes |->
     [kind |-> "Text", color |-> "DEFAULT_FONT_COLOR",
      area |-> [x |-> boxes[i].x, y |-> boxes[i].y,
                width |-> boxes[i].w, height |-> boxes[i].h],
      glyphs |-> boxes[i].glyphs]]

\* --------------------------------------------------------------- mutexes
\* (mutant) a lock that excludes nobody.
mutex_free_always(holder) == TRUE

\* Mutex::lock returns only while no thread holds the mutex.
mutex_free(holder) == holder = "none"

\* style_thread's use of document_store: *document_ref = Some(document),
\* then document_ref.take().unwrap() moves the document out again.
store_and_take(store, document) ==
  LET stored == Some(document)     \* *document_ref = Some(document)
  IN  [taken |-> Unwrap(stored), store |-> None]

\* ------------------------------------------------------------ pipeline
PipeInit ==
  /\ html_sender = "alive"
  /\ sent = <<>>
  /\ sendResult = <<>>
  /\ htmlQ = <<>> /\ styleQ = <<>> /\ layoutQ = <<>> /\ rasterQ = <<>>
  /\ status = [w \in Workers |-> "running"]
  /\ cur = [w \in Workers |-> None]
  /\ rasterPc = "recv"
  /\ layout_box = None
  /\ document_store = None
  /\ raster_window = [holder |-> "none", poisoned |-> FALSE]
  /\ display_lock = "none"
  /\ display_commands = <<>>
  /\ TEXT_LAYOUTS = <<>>
  /\ mainPc = "init"
  /\ drawIdx = 0
  /\ seen = <<>>
  /\ handled = [w \in Workers |-> <<>>]
  /\ writes = <<>>
  /\ joinPc = "none"

CascadeIdle ==
  /\ element = None
  /\ stylesheets = <<>>
  /\ style = None
  /\ cascadePc = "off"

TreeIdle ==
  /\ doc = None
  /\ tree_init_box = None
  /\ styled = {}
  /\ looked_up = None
  /\ root_box = None
  /\ treePc = "off"

\* html_sender.send(markup): the message is queued and the call returns, or
\* it returns Err(SendError) when html_recevier is gone.
Submit(markup) ==
  /\ ProcessAlive
  /\ html_sender = "alive" /\ joinPc = "none"
  /\ Len(sent) < MaxSubmit
  /\ send_ready(htmlQ)
  /\ sent' = Append(sent, markup)
  /\ IF receiver_alive("html")
     THEN /\ htmlQ' = Append(htmlQ, [id |-> Len(sent) + 1, markup |-> markup])
          /\ sendResult' = Append(sendResult, "Ok")
     ELSE /\ htmlQ' = htmlQ
          /\ sendResult' = Append(sendResult, "Err")
  /\ UNCHANGED <<html_sender, styleQ, layoutQ, rasterQ, status, cur, rasterPc,
                 layout_box, document_store, raster_window, display_lock,
                 display_commands, TEXT_LAYOUTS, mainPc, drawIdx, seen, handled,
                 writes, cascadeVars, treeVars,
                 joinPc>>

\* The PageThread (the only holder of html_sender) is dropped.
DropSender ==
  /\ ProcessAlive
  /\ html_sender = "alive" /\ joinPc = "none"
  /\ html_sender' = "dropped"
  /\ UNCHANGED <<sent, sendResult, htmlQ, styleQ, layoutQ, rasterQ, status, cur,
                 rasterPc, layout_box, document_store, raster_window,
                 display_lock, display_commands, TEXT_LAYOUTS, mainPc, drawIdx,
                 seen, handled, writes, cascadeVars, treeVars,
                 joinPc>>

\* html_thread: for msg in html_recevier
HtmlRecv ==
  /\ ProcessAlive
  /\ status["html"] = "running" /\ cur["html"] = None
  /\ htmlQ # <<>>
  /\ cur' = [cur EXCEPT !["html"] = Some(recv(htmlQ).msg)]
  /\ htmlQ' = recv(htmlQ).rest
  /\ UNCHANGED <<html_sender, sent, sendResult, styleQ, layoutQ, rasterQ, status,
                 rasterPc, layout_box, document_store, raster_window,
                 display_lock, display_commands, TEXT_LAYOUTS, mainPc, drawIdx,
                 seen, handled, writes, cascadeVars, treeVars,
                 joinPc>>

\* html_thread: html::parse(msg), then style_sender.send(document).unwrap().
\* A panic ends the thread and drops html_recevier and style_sender.
HtmlParse ==
  /\ ProcessAlive
  /\ status["html"] = "running" /\ cur["html"] # None
  /\ LET msg == Unwrap(cur["html"])
         ok == ~html_parse_panics(msg.markup) /\ receiver_alive("style")
     IN  /\ cur' = [cur EXCEPT !["html"] = None]
         /\ IF ok
            THEN /\ styleQ' = Append(styleQ, html_parse(msg.id, msg.markup))
                 /\ handled' = [handled EXCEPT !["html"] = Append(@, msg.id)]
                 /\ UNCHANGED <<status, htmlQ>>
            ELSE /\ status' = [status EXCEPT !["html"] = "panicked"]
                 /\ htmlQ' = <<>>
                 /\ UNCHANGED <<styleQ, handled>>
  /\ UNCHANGED <<html_sender, sent, sendResult, layoutQ, rasterQ, rasterPc,
                 layout_box, document_store, raster_window, display_lock,
                 display_commands, TEXT_LAYOUTS, mainPc, drawIdx, seen, writes,
                 cascadeVars, treeVars,
                 joinPc>>

\* html_thread: the channel is empty and html_sender is dropped: the for
\* loop ends and the thread returns.
HtmlExit ==
  /\ ProcessAlive
  /\ status["html"] = "running" /\ cur["html"] = None
  /\ htmlQ = <<>> /\ html_sender = "dropped"
  /\ status' = [status EXCEPT !["html"] = "exited"]
  /\ UNCHANGED <<html_sender, sent, sendResult, htmlQ, styleQ, layoutQ, rasterQ,
                 cur, rasterPc, layout_box, document_store, raster_window,
                 display_lock, display_commands, TEXT_LAYOUTS, mainPc, drawIdx,
                 seen, handled, writes, cascadeVars, treeVars,
                 joinPc>>

\* style_thread: for document in style_recevier
StyleRecv ==
  /\ ProcessAlive
  /\ status["style"] = "running" /\ cur["style"] = None
  /\ styleQ # <<>>
  /\ cur' = [cur EXCEPT !["style"] = Some(recv(styleQ).msg)]
  /\ styleQ' = recv(styleQ).rest
  /\ UNCHANGED <<html_sender, sent, sendResult, htmlQ, layoutQ, rasterQ, status,
                 rasterPc, layout_box, document_store, raster_window,
                 display_lock, display_commands, TEXT_LAYOUTS, mainPc, drawIdx,
                 seen, handled, writes, cascadeVars, treeVars,
                 joinPc>>

\* style_thread: the document goes through document_store into a StyleTree,
\* then layout_sender.send(style_tree).unwrap().
StyleSend ==
  /\ ProcessAlive
  /\ status["style"] = "running" /\ cur["style"] # None
  /\ LET r == store_and_take(document_store, Unwrap(cur["style"]))
         style_tree == [document |-> r.taken]
     IN  /\ cur' = [cur EXCEPT !["style"] = None]
         /\ document_store' = r.store
         /\ IF receiver_alive("layout")
            THEN /\ layoutQ' = Append(layoutQ, style_tree)
                 /\ handled' = [handled EXCEPT !["style"] = Append(@, r.taken.id)]
                 /\ UNCHANGED <<status, styleQ>>
            ELSE /\ status' = [status EXCEPT !["style"] = "panicked"]
                 /\ styleQ' = <<>>
                 /\ UNCHANGED <<layoutQ, handled>>
  /\ UNCHANGED <<html_sender, sent, sendResult, htmlQ, rasterQ, rasterPc,
                 layout_box, raster_window, display_lock, display_commands,
                 TEXT_LAYOUTS, mainPc, drawIdx, seen, writes, cascadeVars, treeVars,
                 joinPc>>

\* style_thread: style_recevier is empty and style_sender is dropped.
StyleExit ==
  /\ ProcessAlive
  /\ status["style"] = "running" /\ cur["style"] = None
  /\ styleQ = <<>> /\ status["html"] # "running"
  /\ status' = [status EXCEPT !["style"] = "exited"]
  /\ UNCHANGED <<html_sender, sent, sendResult, htmlQ, styleQ, layoutQ, rasterQ,
                 cur, rasterPc, layout_box, document_store, raster_window,
                 display_lock, display_commands, TEXT_LAYOUTS, mainPc, drawIdx,
                 seen, handled, writes, cascadeVars, treeVars,
                 joinPc>>

\* layout_thread: for style_tree in layout_recevier
LayoutRecv ==
  /\ ProcessAlive
  /\ status["layout"] = "running" /\ cur["layout"] = None
  /\ layoutQ # <<>>
  /\ cur' = [cur EXCEPT !["layout"] = Some(recv(layoutQ).msg)]
  /\ layoutQ' = recv(layoutQ).rest
  /\ UNCHANGED <<html_sender, sent, sendResult, htmlQ, styleQ, rasterQ, status,
                 rasterPc, layout_box, document_store, raster_window,
                 display_lock, display_commands, TEXT_LAYOUTS, mainPc, drawIdx,
                 seen, handled, writes, cascadeVars, treeVars,
                 joinPc>>

\* layout_thread: wrap the StyleTree in a LayoutTree, then
\* raster_sender.send(layout_tree).unwrap().
LayoutSend ==
  /\ ProcessAlive
  /\ status["layout"] = "running" /\ cur["layout"] # None
  /\ LET layout_tree == [style_tree |-> Unwrap(cur["layout"])]
     IN  /\ cur' = [cur EXCEPT !["layout"] = None]
         /\ IF receiver_alive("raster")
            THEN /\ rasterQ' = Append(rasterQ, layout_tree)
                 /\ handled' = [handled EXCEPT !["layout"] =
                                  Append(@, layout_tree.style_tree.document.id)]
                 /\ UNCHANGED <<status, layoutQ>>
            ELSE /\ status' = [status EXCEPT !["layout"] = "panicked"]
                 /\ layoutQ' = <<>>
                 /\ UNCHANGED <<rasterQ, handled>>
  /\ UNCHANGED <<html_sender, sent, sendResult, htmlQ, styleQ, rasterPc,
                 layout_box, document_store, raster_window, display_lock,
                 display_commands, TEXT_LAYOUTS, mainPc, drawIdx, seen, writes,
                 cascadeVars, treeVars,
                 joinPc>>

\* layout_thread: layout_recevier is empty and layout_sender is dropped.
LayoutExit ==
  /\ ProcessAlive
  /\ status["layout"] = "running" /\ cur["layout"] = None
  /\ layoutQ = <<>> /\ status["style"] # "running"
  /\ status' = [status EXCEPT !["layout"] = "exited"]
  /\ UNCHANGED <<html_sender, sent, sendResult, htmlQ, styleQ, layoutQ, rasterQ,
                 cur, rasterPc, layout_box, document_store, raster_window,
                 display_lock, display_commands, TEXT_LAYOUTS, mainPc, drawIdx,
                 seen, handled, writes, cascadeVars, treeVars,
                 joinPc>>

\* raster_thread: for layout_tree in raster_recevier
RasterRecv ==
  /\ ProcessAlive
  /\ status["raster"] = "running" /\ rasterPc = "recv"
  /\ rasterQ # <<>>
  /\ cur' = [cur EXCEPT !["raster"] = Some(recv(rasterQ).msg)]
  /\ rasterQ' = recv(rasterQ).rest
  /\ rasterPc' = "lock_window"
  /\ UNCHANGED <<html_sender, sent, sendResult, htmlQ, styleQ, layoutQ, status,
                 layout_box, document_store, raster_window, display_lock,
                 display_commands, TEXT_LAYOUTS, mainPc, drawIdx, seen, handled,
                 writes, cascadeVars, treeVars,
                 joinPc>>

\* raster_thread: raster_window_store.lock().unwrap()
RasterLockWindow ==
  /\ ProcessAlive
  /\ status["raster"] = "running" /\ rasterPc = "lock_window"
  /\ mutex_free(raster_window.holder)
  /\ IF raster_window.poisoned
     THEN /\ status' = [status EXCEPT !["raster"] = "panicked"]
          /\ cur' = [cur EXCEPT !["raster"] = None]
          /\ rasterQ' = <<>>
          /\ rasterPc' = "recv"
          /\ UNCHANGED raster_window
     ELSE /\ raster_window' = [raster_window EXCEPT !.holder = "raster"]
          /\ rasterPc' = "layout"
          /\ UNCHANGED <<status, cur, rasterQ>>
  /\ UNCHANGED <<html_sender, sent, sendResult, htmlQ, styleQ, layoutQ,
                 layout_box, document_store, display_lock, display_commands,
                 TEXT_LAYOUTS, mainPc, drawIdx, seen, handled, writes,
                 cascadeVars, treeVars,
                 joinPc>>

\* raster_thread: layout_tree.get_layout_tree(viewport), evaluated while the
\* RasterWindow guard is held: a panic poisons that mutex.
RasterLayout ==
  /\ ProcessAlive
  /\ status["raster"] = "running" /\ rasterPc = "layout"
  /\ LET r == get_layout_tree(Unwrap(cur["raster"]).style_tree.document, viewport, TEXT_LAYOUTS)
     IN  /\ TEXT_LAYOUTS' = r.layouts
         /\ IF r.panic
            THEN /\ status' = [status EXCEPT !["raster"] = "panicked"]
                 /\ raster_window' = [holder |-> "none", poisoned |-> TRUE]
                 /\ cur' = [cur EXCEPT !["raster"] = None]
                 /\ rasterQ' = <<>>
                 /\ rasterPc' = "recv"
                 /\ UNCHANGED layout_box
            ELSE /\ layout_box' = Some(r.boxes)
                 /\ rasterPc' = "lock_display"
                 /\ UNCHANGED <<status, raster_window, cur, rasterQ>>
  /\ UNCHANGED <<html_sender, sent, sendResult, htmlQ, styleQ, layoutQ,
                 document_store, display_lock, display_commands, mainPc, drawIdx,
                 seen, handled, writes, cascadeVars, treeVars,
                 joinPc>>

\* RasterWindow::raster: self.display_commands.lock().unwrap()
RasterLockDisplay ==
  /\ ProcessAlive
  /\ status["raster"] = "running" /\ rasterPc = "lock_display"
  /\ mutex_free(display_lock)
  /\ display_lock' = "raster"
  /\ rasterPc' = "write"
  /\ UNCHANGED <<html_sender, sent, sendResult, htmlQ, styleQ, layoutQ, rasterQ,
                 status, cur, layout_box, document_store, raster_window,
                 display_commands, TEXT_LAYOUTS, mainPc, drawIdx, seen, handled,
                 writes, cascadeVars, treeVars,
                 joinPc>>

\* RasterWindow::raster: *display_list = get_display_list(layout_tree); the
\* guard is dropped when raster() returns.
RasterWrite ==
  /\ ProcessAlive
  /\ status["raster"] = "running" /\ rasterPc = "write"
  /\ LET id == Unwrap(cur["raster"]).style_tree.document.id
         list == get_display_list(Unwrap(layout_box))
     IN  /\ display_commands' = list
         /\ writes' = Append(writes, [id |-> id, list |-> list])
         /\ handled' = [handled EXCEPT !["raster"] = Append(@, id)]
  /\ display_lock' = "none"
  /\ layout_box' = None
  /\ rasterPc' = "unlock_window"
  /\ UNCHANGED <<html_sender, sent, sendResult, htmlQ, styleQ, layoutQ, rasterQ,
                 status, cur, document_store, raster_window, TEXT_LAYOUTS, mainPc,
                 drawIdx, seen, cascadeVars, treeVars,
                 joinPc>>

\* raster_thread: drop(raster_window_ref)
RasterUnlockWindow ==
  /\ ProcessAlive
  /\ status["raster"] = "running" /\ rasterPc = "unlock_window"
  /\ raster_window' = [raster_window EXCEPT !.holder = "none"]
  /\ cur' = [cur EXCEPT !["raster"] = None]
  /\ rasterPc' = "recv"
  /\ UNCHANGED <<html_sender, sent, sendResult, htmlQ, styleQ, layoutQ, rasterQ,
                 status, layout_box, document_store, display_lock,
                 display_commands, TEXT_LAYOUTS, mainPc, drawIdx, seen, handled,
                 writes, cascadeVars, treeVars,
                 joinPc>>

\* raster_thread: raster_recevier is empty and raster_sender is dropped.
RasterExit ==
  /\ ProcessAlive
  /\ status["raster"] = "running" /\ rasterPc = "recv"
  /\ rasterQ = <<>> /\ status["layout"] # "running"
  /\ status' = [status EXCEPT !["raster"] = "exited"]
  /\ UNCHANGED <<html_sender, sent, sendResult, htmlQ, styleQ, layoutQ, rasterQ,
                 cur, rasterPc, layout_box, document_store, raster_window,
                 display_lock, display_commands, TEXT_LAYOUTS, mainPc, drawIdx,
                 seen, handled, writes, cascadeVars, treeVars,
                 joinPc>>

\* start_window: window_store.lock().unwrap() on the main thread; a poisoned
\* mutex panics the main thread, which ends the process.
StartWindowLock ==
  /\ mainPc = "init"
  /\ mutex_free(raster_window.holder)
  /\ IF raster_window.poisoned
     THEN /\ mainPc' = "panicked"
          /\ UNCHANGED raster_window
     ELSE /\ mainPc' = "window"
          /\ raster_window' = [raster_window EXCEPT !.holder = "main"]
  /\ UNCHANGED <<html_sender, sent, sendResult, htmlQ, styleQ, layoutQ, rasterQ,
                 status, cur, rasterPc, layout_box, document_store, display_lock,
                 display_commands, TEXT_LAYOUTS, drawIdx, seen, handled, writes,
                 cascadeVars, treeVars,
                 joinPc>>

\* (mutant) start_window enters the event loop without drop(window).
StartWindowRun_keeps_window ==
  /\ mainPc = "window"
  /\ mainPc' = "idle"
  /\ UNCHANGED <<html_sender, sent, sendResult, htmlQ, styleQ, layoutQ, rasterQ,
                 status, cur, rasterPc, layout_box, document_store, raster_window,
                 display_lock, display_commands, TEXT_LAYOUTS, drawIdx, seen,
                 handled, writes, joinPc, cascadeVars, treeVars>>

\* start_window: the WindowState gets a clone of display_commands,
\* drop(window), then event::run enters the event loop.
StartWindowRun ==
  /\ mainPc = "window"
  /\ raster_window' = [raster_window EXCEPT !.holder = "none"]
  /\ mainPc' = "idle"
  /\ UNCHANGED <<html_sender, sent, sendResult, htmlQ, styleQ, layoutQ, rasterQ,
                 status, cur, rasterPc, layout_box, document_store, display_lock,
                 display_commands, TEXT_LAYOUTS, drawIdx, seen, handled, writes,
                 cascadeVars, treeVars,
                 joinPc>>

\* WindowState::draw_commands: self.display_commands.lock().unwrap()
DrawLock ==
  /\ mainPc = "idle"
  /\ mutex_free(display_lock)
  /\ display_lock' = "main"
  /\ mainPc' = "draw"
  /\ drawIdx' = 1
  /\ seen' = <<>>
  /\ UNCHANGED <<html_sender, sent, sendResult, htmlQ, styleQ, layoutQ, rasterQ,
                 status, cur, rasterPc, layout_box, document_store, raster_window,
                 display_commands, TEXT_LAYOUTS, handled, writes, cascadeVars, treeVars,
                 joinPc>>

\* WindowState::draw_commands: one turn of for command in &*display_list
DrawCommand ==
  /\ mainPc = "draw"
  /\ drawIdx <= Len(display_commands)
  /\ seen' = Append(seen, display_commands[drawIdx])
  /\ drawIdx' = drawIdx + 1
  /\ UNCHANGED <<html_sender, sent, sendResult, htmlQ, styleQ, layoutQ, rasterQ,
                 status, cur, rasterPc, layout_box, document_store, raster_window,
                 display_lock, display_commands, TEXT_LAYOUTS, mainPc, handled,
                 writes, cascadeVars, treeVars,
                 joinPc>>

\* WindowState::draw_commands returns: the iteration is over and the guard
\* is dropped.
DrawUnlock ==
  /\ mainPc = "draw"
  /\ drawIdx > Len(display_commands)
  /\ display_lock' = "none"
  /\ mainPc' = "idle"
  /\ drawIdx' = 0
  /\ seen' = <<>>
  /\ UNCHANGED <<html_sender, sent, sendResult, htmlQ, styleQ, layoutQ, rasterQ,
                 status, cur, rasterPc, layout_box, document_store, raster_window,
                 display_commands, TEXT_LAYOUTS, handled, writes, cascadeVars, treeVars,
                 joinPc>>

Init == PipeInit /\ CascadeIdle /\ TreeIdle

Next ==
  \/ \E markup \in Markups : Submit(markup)
  \/ DropSender
  \/ HtmlRecv \/ HtmlParse \/ HtmlExit
  \/ StyleRecv \/ StyleSend \/ StyleExit
  \/ LayoutRecv \/ LayoutSend \/ LayoutExit
  \/ RasterRecv \/ RasterLockWindow \/ RasterLayout \/ RasterLockDisplay
  \/ RasterWrite \/ RasterUnlockWindow \/ RasterExit
  \/ StartWindowLock \/ StartWindowRun
  \/ DrawLock \/ DrawCommand \/ DrawUnlock

Spec == Init /\ [][Next]_vars

\* The steps a worker takes without waiting for a mutex.
WorkerStep ==
  \/ HtmlRecv \/ HtmlParse \/ HtmlExit
  \/ StyleRecv \/ StyleSend \/ StyleExit
  \/ LayoutRecv \/ LayoutSend \/ LayoutExit
  \/ RasterRecv \/ RasterLayout \/ RasterWrite \/ RasterUnlockWindow \/ RasterExit

\* Fair scheduling: a worker that can take a step is scheduled; a worker that
\* waits for a mutex gets it if the mutex is free again and again; the main
\* thread finishes start_window and every draw it began.
Fairness ==
  /\ WF_vars(WorkerStep)
  /\ SF_vars(RasterLockWindow \/ RasterLockDisplay)
  /\ WF_vars(StartWindowRun \/ DrawCommand \/ DrawUnlock)

FairSpec == Spec /\ Fairness

\* ------------------------------------------------- pipeline: properties
WrittenIds == {writes[i].id : i \in DOMAIN writes}
WrittenLists == {writes[i].list : i \in DOMAIN writes}

\* How often submission id is in flight in the pipeline or written.
Places(id) ==
  Cardinality({i \in DOMAIN htmlQ : htmlQ[i].id = id})
  + Cardinality({i \in DOMAIN cur["html"] : cur["html"][i].id = id})
  + Cardinality({i \in DOMAIN styleQ : styleQ[i].id = id})
  + Cardinality({i \in DOMAIN cur["style"] : cur["style"][i].id = id})
  + Cardinality({i \in DOMAIN layoutQ : layoutQ[i].document.id = id})
  + Cardinality({i \in DOMAIN cur["layout"] : cur["layout"][i].document.id = id})
  + Cardinality({i \in DOMAIN rasterQ : rasterQ[i].style_tree.document.id = id})
  + Cardinality({i \in DOMAIN cur["raster"] :
                   /\ rasterPc # "unlock_window"
                   /\ cur["raster"][i].style_tree.document.id = id})
  + Cardinality({i \in DOMAIN writes : writes[i].id = id})

NoFailure == \A k \in DOMAIN sent : sent[k].error = "none"

Quiescent ==
  /\ htmlQ = <<>> /\ styleQ = <<>> /\ layoutQ = <<>> /\ rasterQ = <<>>
  /\ \A w \in Workers : cur[w] = None

\* C1 (frame ordering): the slot is written in submission order: a display
\* list derived from an earlier submission never overwrites one derived from
\* a later submission.
C1_FrameOrdering ==
  \A i, j \in DOMAIN writes : i < j => writes[i].id < writes[j].id

C1_Witness == Len(writes) = 2 /\ writes[1].id = 1 /\ writes[2].id = 2

\* C2 (slot mutual exclusion): the raster worker never writes the slot while
\* the event loop iterates over it, and what a draw has iterated over is at
\* every moment a prefix of, and at its end the whole of, the initial empty
\* list or the display list of one submission.
C2_SlotMutualExclusion ==
  /\ ~(rasterPc = "write" /\ mainPc = "draw")
  /\ mainPc = "draw" =>
       \E l \in {<<>>} \cup WrittenLists :
          /\ Len(seen) <= Len(l)
          /\ seen = SubSeq(l, 1, Len(seen))
          /\ drawIdx > Len(display_commands) => seen = l

C2_Witness ==
  /\ mainPc = "draw" /\ Len(seen) = 1 /\ Len(display_commands) = 2
  /\ rasterPc = "lock_display"

\* C3 (full re-render per submission): as long as no submitted markup makes a
\* stage fail, every submission is at exactly one place of the pipeline (never
\* dropped, duplicated or merged with another), each worker handles the
\* submissions once each and in order, and under fair scheduling every
\* submission's display list is eventually written to the slot, once.
C3_FullRerender ==
  /\ [](NoFailure =>
          /\ \A id \in DOMAIN sent : Places(id) = 1 /\ sendResult[id] = "Ok"
          /\ \A w \in Workers : \A i \in DOMAIN handled[w] : handled[w][i] = i)
  /\ []<>(NoFailure =>
            \A id \in DOMAIN sent :
              Cardinality({i \in DOMAIN writes : writes[i].id = id}) = 1)

C3_Witness ==
  /\ NoFailure /\ Len(sent) = MaxSubmit
  /\ \A w \in Workers : Len(handled[w]) = MaxSubmit

\* C4 (a syntax error does not stop the harness): when the pipeline has come
\* to rest, every well-formed submission made after a submission with a
\* syntax error was accepted by html_sender and its display list written.
C4_HarnessSurvivesSyntaxError ==
  Quiescent =>
    \A k \in DOMAIN sent :
      (sent[k].error = "none" /\ \E j \in 1..(k - 1) : sent[j].error # "none")
        => (sendResult[k] = "Ok" /\ k \in WrittenIds)

\* C5 (a failing frame leaves no trace): a submission with a syntax error
\* is never written to the slot, which holds the display list of the last
\* frame that completed (or the initial empty list); the worker in which the
\* error is raised hands nothing of that frame on, so a markup error is seen by
\* no worker after html_thread and an inline style error reaches no display
\* list.
C5_FailedFrameLeavesNoTrace ==
  /\ \A i \in DOMAIN writes : sent[writes[i].id].error = "none"
  /\ display_commands = IF writes = <<>> THEN <<>> ELSE writes[Len(writes)].list
  /\ \A k \in DOMAIN sent :
       sent[k].error = "markup" =>
         /\ Places(k) = Cardinality({i \in DOMAIN htmlQ : htmlQ[i].id = k})
                        + Cardinality({i \in DOMAIN cur["html"] : cur["html"][i].id = k})
         /\ \A w \in Workers : k \notin Range(handled[w])
  /\ \A k \in DOMAIN sent :
       sent[k].error = "inline" =>
         /\ k \notin Range(handled["raster"])
         /\ ~(/\ rasterPc \in {"lock_display", "write", "unlock_window"}
              /\ Unwrap(cur["raster"]).style_tree.document.id = k)

C5_Witness ==
  /\ Len(writes) = 1 /\ Len(sent) = 2 /\ sent[2].error # "none"
  /\ Quiescent
  /\ \E w \in Workers : status[w] = "panicked"
  /\ display_commands = writes[1].list /\ display_commands # <<>>

\* C6 (clean shutdown): once html_sender is dropped, no worker panics any
\* more: each one drains its channel and returns.
C6_CleanShutdown ==
  [][html_sender = "dropped" =>
       \A w \in Workers : status'[w] = "panicked" => status[w] = "panicked"]_vars

\* C7 (submit never blocks): while html_sender exists, a send of any markup
\* can be taken at once, whatever is queued or being processed and whoever
\* holds a lock.
C7_SubmitNonBlocking ==
  (ProcessAlive /\ html_sender = "alive" /\ Len(sent) < MaxSubmit)
    => \A markup \in Markups : ENABLED Submit(markup)

C7_Witness ==
  /\ Len(htmlQ) = MaxSubmit - 1 /\ Len(sent) < MaxSubmit /\ html_sender = "alive"
  /\ display_lock = "main" /\ raster_window.holder = "none"

\* C8 (re-render idempotence): two successive submissions of the same markup
\* that are both written give the slot the same display list.
C8_RerenderIdempotent ==
  \A i, j \in DOMAIN writes :
    (writes[j].id = writes[i].id + 1 /\ sent[writes[i].id] = sent[writes[j].id])
      => writes[i].list = writes[j].list

C8_Witness ==
  /\ Len(writes) = 2 /\ sent[1] = sent[2] /\ Len(writes[2].list) = 2
  /\ writes[2].id = 2

\* ------------------------------------------------------------------ f32
\* An f32 is [s, m, e] with value s * m * 2^e: s is 1 or -1 and m is the
\* 24-bit significand, 2^23 <= m < 2^24, or 0 for zero.  The operations
\* round to nearest, ties to even, as the hardware does; the lengths of the
\* model stay far from the subnormal and the infinite range.
f32_zero == [s |-> 1, m |-> 0, e |-> 0]

\* x / 2^d, keeping in the lowest bit whether anything was shifted out.
f32_shr_sticky(x, d) ==
  IF d >= 28 THEN (IF x # 0 THEN 1 ELSE 0)
  ELSE LET q == x \div (2^d)
           r == x % (2^d)
       IN  IF r # 0 /\ q % 2 = 0 THEN q + 1 ELSE q

\* Rounds S * 2^e, 2^26 <= S < 2^27 (three extra bits), to 24 bits.
f32_round(sg, S, e) ==
  LET m0 == S \div 8
      rem == S % 8
      m1 == IF rem > 4 \/ (rem = 4 /\ m0 % 2 = 1) THEN m0 + 1 ELSE m0
  IN  IF m1 = 2^24 THEN [s |-> sg, m |-> 2^23, e |-> e + 4]
      ELSE [s |-> sg, m |-> m1, e |-> e + 3]

RECURSIVE f32_normalize(_, _, _)
f32_normalize(sg, S, e) ==
  IF S < 2^26 THEN f32_normalize(sg, S * 2, e - 1) ELSE f32_round(sg, S, e)

\* the operands ordered by magnitude
f32_add_ordered(a, b) ==
  LET d == a.e - b.e
      A == a.m * 8
      B == f32_shr_sticky(b.m * 8, d)
      e == a.e - 3
  IN  IF a.s = b.s
      THEN IF A + B >= 2^27 THEN f32_round(a.s, f32_shr_sticky(A + B, 1), e + 1)
           ELSE f32_round(a.s, A + B, e)
      ELSE IF A = B THEN f32_zero
           ELSE f32_normalize(a.s, A - B, e)

f32_add_values(a, b) ==
  IF a.m = 0 THEN b
  ELSE IF b.m = 0 THEN a
  ELSE IF a.e < b.e \/ (a.e = b.e /\ a.m < b.m) THEN f32_add_ordered(b, a)
  ELSE f32_add_ordered(a, b)

\* a + b on f32 (each operand is evaluated once, then added)
f32_add(a, b) ==
  CHOOSE r \in {f32_add_values(x, y) : x \in {a}, y \in {b}} : TRUE

f32_neg(a) == IF a.m = 0 THEN a ELSE [a EXCEPT !.s = 0 - a.s]

\* a - b on f32
f32_sub(a, b) == f32_add(a, f32_neg(b))

\* a / 2.0 on f32: exact
f32_div2(a) == IF a.m = 0 THEN a ELSE [a EXCEPT !.e = a.e - 1]

\* a < b and a > b on f32
f32_lt(a, b) == \E d \in {f32_sub(a, b)} : d.m # 0 /\ d.s = -1
f32_gt(a, b) == f32_lt(b, a)
f32_ge(a, b) == ~f32_lt(a, b)

RECURSIVE f32_scale(_, _, _)
f32_scale(N, D, k) ==
  IF N * (2^k) >= D * (2^23) THEN k ELSE f32_scale(N, D, k + 1)

\* str::parse::<f32> of a decimal N / D (D a power of ten): the nearest f32.
f32_from_decimal(N, D) ==
  IF N = 0 THEN f32_zero
  ELSE LET k == f32_scale(N, D, 0)
           q == (N * (2^k)) \div D
           r == (N * (2^k)) % D
           m1 == IF 2 * r > D \/ (2 * r = D /\ q % 2 = 1) THEN q + 1 ELSE q
       IN  IF m1 = 2^24 THEN [s |-> 1, m |-> 2^23, e |-> 1 - k]
           ELSE [s |-> 1, m |-> m1, e |-> 0 - k]

\* A whole number of pixels as an f32 (exact).
f32_whole(n) == f32_from_decimal(n, 1)

\* ------------------------------------------------------------ css values
\* Source text is a sequence of characters.
DigitChars == <<"0", "1", "2", "3", "4", "5", "6", "7", "8", "9">>
HexChars == DigitChars \o <<"a", "b", "c", "d", "e", "f">>

CharValue(chars, c) == (CHOOSE i \in DOMAIN chars : chars[i] = c) - 1

\* Parser::consume_while: the length of the longest prefix of text made of
\* characters of the set.
consume_while(text, set) ==
  CHOOSE n \in 0..Len(text) :
    /\ \A i \in 1..n : text[i] \in set
    /\ n = Len(text) \/ text[n + 1] \notin set

\* CSSValue
Keyword(str) == [kind |-> "Keyword", str |-> str]
Unknown(str) == [kind |-> "Unknown", str |-> str]
Length(num, unit) == [kind |-> "Length", num |-> num, unit |-> unit]
Color(r, g, b, a) == [kind |-> "Color", r |-> r, g |-> g, b |-> b, a |-> a]

RECURSIVE DecimalDigits(_)
DecimalDigits(digits) ==
  IF digits = <<>> THEN 0
  ELSE 10 * DecimalDigits(SubSeq(digits, 1, Len(digits) - 1))
       + CharValue(DigitChars, digits[Len(digits)])

\* num.parse::<f32>().unwrap_or(0.0) for a text of digits and dots that
\* starts with a digit: a second dot is a parse error.
parse_f32(num) ==
  LET dots == {i \in DOMAIN num : num[i] = "."}
  IN  IF Cardinality(dots) > 1 THEN f32_zero
      ELSE IF dots = {} THEN f32_from_decimal(DecimalDigits(num), 1)
      ELSE LET dot == CHOOSE i \in dots : TRUE
               whole == SubSeq(num, 1, dot - 1)
               frac == SubSeq(num, dot + 1, Len(num))
           IN  f32_from_decimal(DecimalDigits(whole \o frac), 10^Len(frac))

\* Parser::parse_value_length
parse_value_length(text) ==
  LET n == consume_while(text, Range(DigitChars) \cup {"."})
      unit == SubSeq(text, n + 1, Len(text))
      css_unit == IF unit = <<"e", "m">> THEN "Em"
                  ELSE IF unit = <<"r", "e", "m">> THEN "Rem"
                  ELSE "Px"
  IN  Length(parse_f32(SubSeq(text, 1, n)), css_unit)

\* parse_single_channel: u8::from_str_radix(val, 16)
parse_single_channel(val) ==
  16 * CharValue(HexChars, val[1]) + CharValue(HexChars, val[2])

\* Parser::parse_hex_color, after the #: asserts six hex digits; the
\* assert!(consume_char() == ';') of parse_prop_value then wants the value
\* to end there.
parse_hex_color_panics(text) ==
  consume_while(text, Range(HexChars)) # 6 \/ Len(text) # 6

parse_hex_color(text) ==
  Color(parse_single_channel(SubSeq(text, 1, 2)),
        parse_single_channel(SubSeq(text, 3, 4)),
        parse_single_channel(SubSeq(text, 5, 6)), 255)

parse_value_panics(text) ==
  text # <<>> /\ text[1] = "#" /\ parse_hex_color_panics(Tail(text))

\* (mutant) an identifier is read as a keyword.
parse_value_keyword(text) ==
  IF text # <<>> /\ text[1] \in Range(DigitChars) THEN parse_value_length(text)
  ELSE IF text # <<>> /\ text[1] = "#" THEN parse_hex_color(Tail(text))
  ELSE Keyword(text)

\* Parser::parse_value, on the text between the ':' and the ';' of a
\* declaration: a length, a colour, or the raw text as Unknown.
parse_value(text) ==
  IF text # <<>> /\ text[1] \in Range(DigitChars) THEN parse_value_length(text)
  ELSE IF text # <<>> /\ text[1] = "#" THEN parse_hex_color(Tail(text))
  ELSE Unknown(text)

\* CSSValue::to_px: the number of a length, 0 for every other value.
to_px(value) == IF value.kind = "Length" THEN value.num ELSE f32_zero

\* ------------------------------------------------------------- cascade
\* ElementData::classes / ElementData::ids: the names of the attribute,
\* split at spaces, as a set; no attribute gives the empty set.
classes(elem) == IF elem.attrs.class = None THEN {} ELSE Range(Unwrap(elem.attrs.class))
ids(elem) == IF elem.attrs.id = None THEN {} ELSE Range(Unwrap(elem.attrs.id))

\* CSSSimpleSelector::get_specificity: (id.len(), class.len(), tag.iter().count())
get_specificity(selector) ==
  <<Len(selector.id), Len(selector.class), Len(selector.tag)>>

\* style::match_selector
match_selector(elem, selector) ==
  /\ \A i \in DOMAIN selector.tag : elem.tag_name = selector.tag[i]
  /\ \A i \in DOMAIN selector.class : selector.class[i] \in classes(elem)
  /\ \A i \in DOMAIN selector.id : selector.id[i] \in ids(elem)

\* style::match_rule: the first selector of the rule that matches gives the
\* rule its specificity.
match_rule(elem, rule) ==
  LET hits == {i \in DOMAIN rule.selectors : match_selector(elem, rule.selectors[i])}
  IN  IF hits = {} THEN None
      ELSE LET first == CHOOSE i \in hits : \A j \in hits : i <= j
           IN  Some([specificity |-> get_specificity(rule.selectors[first]),
                     rule |-> rule])

\* style::match_rules: filter_map over the rules of one stylesheet, in order.
RECURSIVE match_rules(_, _)
match_rules(elem, rules) ==
  IF rules = <<>> THEN <<>>
  ELSE match_rule(elem, Head(rules)) \o match_rules(elem, Tail(rules))

\* (mutant) the triples are compared from their last component.
cmp_less_reversed(a, b) ==
  \/ a[3] < b[3]
  \/ a[3] = b[3] /\ a[2] < b[2]
  \/ a[3] = b[3] /\ a[2] = b[2] /\ a[1] < b[1]

\* Ord::cmp on Specificity = (usize, usize, usize): a.cmp(&b) == Less
cmp_less(a, b) ==
  \/ a[1] < b[1]
  \/ a[1] = b[1] /\ a[2] < b[2]
  \/ a[1] = b[1] /\ a[2] = b[2] /\ a[3] < b[3]

\* slice::sort_by(|&(a, _), &(b, _)| a.cmp(&b)): a stable sort, ascending.
RECURSIVE sort_insert(_, _)
sort_insert(sorted, x) ==
  IF sorted = <<>> THEN <<x>>
  ELSE IF cmp_less(x.specificity, Last(sorted).specificity)
       THEN Append(sort_insert(SubSeq(sorted, 1, Len(sorted) - 1), x), Last(sorted))
       ELSE Append(sorted, x)

RECURSIVE sort_by(_)
sort_by(rules) ==
  IF rules = <<>> THEN <<>>
  ELSE sort_insert(sort_by(SubSeq(rules, 1, Len(rules) - 1)), Last(rules))

\* HashMap::insert(prop, value)
hash_insert(map, prop, value) ==
  [k \in DOMAIN map \cup {prop} |-> IF k = prop THEN value ELSE map[k]]

RECURSIVE insert_all(_, _)
insert_all(map, prop_value_set) ==
  IF prop_value_set = <<>> THEN map
  ELSE insert_all(hash_insert(map, Head(prop_value_set).prop, Head(prop_value_set).value),
                  Tail(prop_value_set))

\* css::parse_prop_value asserts the ';' that ends a declaration.
parse_inline_style_panics(content) ==
  \E i \in DOMAIN content :
     ~content[i].terminated \/ parse_value_panics(content[i].value)

\* css::parse_inline_style: the declarations of a style attribute.
parse_inline_style(content) ==
  [i \in DOMAIN content |->
     [prop |-> content[i].prop, value |-> parse_value(content[i].value)]]

RECURSIVE collect_rules(_, _)
collect_rules(elem, sheets) ==
  IF sheets = <<>> THEN <<>>
  ELSE match_rules(elem, Head(sheets).rules) \o collect_rules(elem, Tail(sheets))

RECURSIVE apply_rules(_, _)
apply_rules(map, rules) ==
  IF rules = <<>> THEN map
  ELSE apply_rules(insert_all(map, Head(rules).rule.prop_value_set), Tail(rules))

\* (mutant) the declarations of the style attribute are inserted first and
\* those of the matched rules after them.
specified_values_rules_last(elem, sheets) ==
  LET rules == sort_by(collect_rules(elem, sheets))
  IN  IF elem.attrs.style = None THEN [panic |-> FALSE, style |-> apply_rules(<<>>, rules)]
      ELSE IF parse_inline_style_panics(Unwrap(elem.attrs.style))
           THEN [panic |-> TRUE, style |-> <<>>]
           ELSE [panic |-> FALSE,
                 style |-> apply_rules(insert_all(<<>>,
                                         parse_inline_style(Unwrap(elem.attrs.style))),
                                       rules)]

\* style::specified_values: collect the matched rules of every stylesheet in
\* order, sort them by specificity, insert their declarations in that order,
\* then those of the style attribute.
specified_values(elem, sheets) ==
  LET rules == sort_by(collect_rules(elem, sheets))
      from_rules == apply_rules(<<>>, rules)
  IN  IF elem.attrs.style = None THEN [panic |-> FALSE, style |-> from_rules]
      ELSE IF parse_inline_style_panics(Unwrap(elem.attrs.style))
           THEN [panic |-> TRUE, style |-> <<>>]
           ELSE [panic |-> FALSE,
                 style |-> insert_all(from_rules,
                                      parse_inline_style(Unwrap(elem.attrs.style)))]

\* The inputs of the cascade.
Props == {"color", "display"}
Values == {Unknown(<<"a">>), Unknown(<<"b">>)}

Selectors ==
  { [id |-> <<>>,    class |-> <<>>,    tag |-> None],         \* *
    [id |-> <<>>,    class |-> <<>>,    tag |-> Some("p")],    \* p
    [id |-> <<>>,    class |-> <<"y">>, tag |-> None],         \* .y
    [id |-> <<"x">>, class |-> <<>>,    tag |-> None] }        \* #x

Rules ==
  { [selectors |-> <<s>>, prop_value_set |-> <<[prop |-> p, value |-> v]>>] :
      s \in Selectors, p \in Props, v \in Values }

SheetsUpTo(n) == { [rules |-> r] : r \in UNION { [1..k -> Rules] : k \in 0..n } }

Elements ==
  { [tag_name |-> "p",
     attrs |-> [class |-> Some(<<"y">>), id |-> Some(<<"x">>), style |-> None]],
    [tag_name |-> "p",
     attrs |-> [class |-> None, id |-> None,
                style |-> Some(<<[prop |-> "color", value |-> <<"b">>, terminated |-> TRUE]>>)]],
    [tag_name |-> "p",
     attrs |-> [class |-> Some(<<"y">>), id |-> None,
                style |-> Some(<<[prop |-> "color", value |-> <<"b">>, terminated |-> FALSE]>>)]],
    [tag_name |-> "p",
     attrs |-> [class |-> Some(<<"y">>), id |-> Some(<<"x">>),
                style |-> Some(<<[prop |-> "color", value |-> <<"a">>, terminated |-> TRUE]>>)]] }

CascadeInit ==
  /\ PipeInit
  /\ TreeIdle
  /\ element \in Elements
  /\ stylesheets \in { <<d, a>> : d \in SheetsUpTo(1), a \in SheetsUpTo(MaxRules) }
  /\ style = <<>>
  /\ cascadePc = "input"

\* style_tree: specified_values(element, stylesheets) for one element.
SpecifiedValues ==
  /\ cascadePc = "input"
  /\ LET r == specified_values(element, stylesheets)
     IN  /\ style' = r.style
         /\ cascadePc' = IF r.panic THEN "panicked" ELSE "styled"
  /\ UNCHANGED <<element, stylesheets, pipeVars, treeVars>>

CascadeNext == SpecifiedValues

SpecCascade == CascadeInit /\ [][CascadeNext]_vars

\* ---------------------------------------------------- cascade: properties
\* The matched rules of the element, each with its place in document order
\* (stylesheet, then rule within the stylesheet) and the specificity it takes
\* part in the cascade with.
Matched ==
  { [sheet |-> i, rule |-> j,
     specificity |-> Unwrap(match_rule(element, stylesheets[i].rules[j])).specificity] :
      <<i, j>> \in { <<i, j>> \in (DOMAIN stylesheets) \X (0..MaxRules + 1) :
                       /\ j \in DOMAIN stylesheets[i].rules
                       /\ match_rule(element, stylesheets[i].rules[j]) # None } }

Declares(m, prop) ==
  \E k \in DOMAIN stylesheets[m.sheet].rules[m.rule].prop_value_set :
     stylesheets[m.sheet].rules[m.rule].prop_value_set[k].prop = prop

\* The value a rule gives a property: that of its last declaration of it.
ValueOf(m, prop) ==
  LET set == stylesheets[m.sheet].rules[m.rule].prop_value_set
      last == CHOOSE k \in DOMAIN set :
                /\ set[k].prop = prop
                /\ \A l \in DOMAIN set : set[l].prop = prop => l <= k
  IN  set[last].value

LexLess(a, b) ==
  \E n \in 1..3 : a[n] < b[n] /\ \A k \in 1..(n - 1) : a[k] = b[k]

Earlier(a, b) ==
  a.sheet < b.sheet \/ (a.sheet = b.sheet /\ a.rule < b.rule)

\* a loses to b in the cascade
LosesTo(a, b) ==
  \/ LexLess(a.specificity, b.specificity)
  \/ a.specificity = b.specificity /\ Earlier(a, b)

InlineDeclares(prop) ==
  /\ element.attrs.style # None
  /\ \E k \in DOMAIN Unwrap(element.attrs.style) : Unwrap(element.attrs.style)[k].prop = prop

\* C9 (cascade order): for a property that the style attribute does not set,
\* the resolved value is that of a matched rule declaring it to which every
\* other matched rule declaring it loses: the other has the smaller
\* specificity (lexicographic on id, class, tag counts) or the same
\* specificity and an earlier place in document order.
C9_CascadeOrder ==
  cascadePc = "styled" =>
    \A prop \in Props :
      LET M == {m \in Matched : Declares(m, prop)}
      IN  (M # {} /\ ~InlineDeclares(prop)) =>
            /\ prop \in DOMAIN style
            /\ \E w \in M :
                 /\ style[prop] = ValueOf(w, prop)
                 /\ \A o \in M : o = w \/ LosesTo(o, w)

C9_Witness ==
  /\ cascadePc = "styled"
  /\ \E a, b, c \in Matched :
       /\ Declares(a, "color") /\ Declares(b, "color") /\ Declares(c, "color")
       /\ Earlier(b, c) /\ Earlier(c, a)
       /\ b.specificity = c.specificity
       /\ LexLess(a.specificity, c.specificity)
       /\ ValueOf(b, "color") # ValueOf(c, "color")
       /\ ValueOf(a, "color") # ValueOf(c, "color")
       /\ style["color"] = ValueOf(c, "color")

\* C10 (the default stylesheet has the lowest priority): when a matching
\* rule of a <style> block stylesheet declares a property, the resolved
\* value is never one that only the default stylesheet (index 1) gives it.
C10_DefaultSheetLowest ==
  cascadePc = "styled" =>
    \A prop \in Props :
      LET A == {m \in Matched : m.sheet > 1 /\ Declares(m, prop)}
      IN  (A # {} /\ ~InlineDeclares(prop)) =>
            style[prop] \in {ValueOf(m, prop) : m \in A}

\* The value the style attribute gives a property: that of its last
\* declaration of it.
InlineValue(prop) ==
  LET set == Unwrap(element.attrs.style)
      last == CHOOSE k \in DOMAIN set :
                /\ set[k].prop = prop
                /\ \A l \in DOMAIN set : set[l].prop = prop => l <= k
  IN  parse_value(set[last].value)

dom_text(data) ==
  [kind |-> "Text", data |-> data, tag_name |-> "", attrs |-> None, children |-> <<>>]
dom_element(name, attrs, children) ==
  [kind |-> "Element", data |-> "", tag_name |-> name, attrs |-> attrs,
   children |-> children]

\* The node of a document at a path of child indices.
RECURSIVE NodeAt(_, _)
NodeAt(root, path) ==
  IF path = <<>> THEN root ELSE NodeAt(root.children[Head(path)], Tail(path))

\* style_tree: the test of the filter_map over root.children
is_head(child) == child.kind = "Element" /\ child.tag_name = "head"

\* The indices of the children style_tree keeps, in order.
RECURSIVE kept_children(_, _)
kept_children(children, i) ==
  IF i > Len(children) THEN <<>>
  ELSE IF is_head(children[i]) THEN kept_children(children, i + 1)
  ELSE <<i>> \o kept_children(children, i + 1)

\* specified_values panics somewhere in the part of the tree that is styled.
RECURSIVE style_tree_panics(_, _)
style_tree_panics(root, sheets) ==
  \/ root.kind = "Element" /\ specified_values(root, sheets).panic
  \/ \E i \in Range(kept_children(root.children, 1)) :
        style_tree_panics(root.children[i], sheets)

\* style::style_tree.  A StyledNode is known by its identity, the path of
\* its document node: [id, kind, style, parent, children], parent and
\* children being identities (Weak and Arc pointers).
RECURSIVE style_tree(_, _, _, _)
style_tree(root, sheets, parent, id) ==
  LET kept == kept_children(root.children, 1)
      styled_node ==
        [id |-> id,
         kind |-> root.kind,
         data |-> root.data,
         style |-> IF root.kind = "Element" THEN specified_values(root, sheets).style
                   ELSE <<>>,
         parent |-> parent,
         children |-> [k \in DOMAIN kept |-> Append(id, kept[k])]]
  IN  {styled_node} \cup
      UNION { style_tree(root.children[kept[k]], sheets, Some(id), Append(id, kept[k])) :
                k \in DOMAIN kept }

\* The StyledNode an Arc or an upgraded Weak points to.
StyledNode(tree, id) == CHOOSE n \in tree : n.id = id

\* (mutant) the lookup stops at the node itself.
get_inherit_val_own(tree, id, name) ==
  LET self == StyledNode(tree, id)
  IN  IF name \in DOMAIN self.style THEN Some(self.style[name]) ELSE None

\* StyledNode::get_inherit_val
RECURSIVE get_inherit_val(_, _, _)
get_inherit_val(tree, id, name) ==
  LET self == StyledNode(tree, id)
  IN  IF name \in DOMAIN self.style THEN Some(self.style[name])
      ELSE IF self.parent = None THEN None
      ELSE get_inherit_val(tree, Unwrap(self.parent), name)

INHERIT_ATTRS == {"color"}

\* StyledNode::get_val
get_val(tree, id, name) ==
  IF name \in INHERIT_ATTRS THEN get_inherit_val(tree, id, name)
  ELSE LET self == StyledNode(tree, id)
       IN  IF name \in DOMAIN self.style THEN Some(self.style[name]) ELSE None

\* The inputs of the style tree: documents of up to three levels whose
\* elements are div or head and carry their declarations in a style
\* attribute.
StyleAttr(decls) ==
  [class |-> None, id |-> None,
   style |-> IF decls = <<>> THEN None ELSE Some(decls)]

decl_color_a == [prop |-> "color", value |-> <<"a">>, terminated |-> TRUE]
decl_color_b == [prop |-> "color", value |-> <<"b">>, terminated |-> TRUE]
decl_width == [prop |-> "width", value |-> <<"1", "p", "x">>, terminated |-> TRUE]

TreeTags == {"div", "head"}

TreeLeaves ==
  {dom_text("t")} \cup
  {dom_element(t, StyleAttr(<<>>), <<>>) : t \in TreeTags} \cup
  {dom_element("div", StyleAttr(<<decl_color_a>>), <<>>)}

TreeInner ==
  { dom_element(t, StyleAttr(d), kids) :
      t \in TreeTags, d \in {<<>>, <<decl_color_b, decl_width>>},
      kids \in {<<>>} \cup {<<l>> : l \in TreeLeaves} }

TreeRoots ==
  { dom_element(t, StyleAttr(d), kids) :
      t \in TreeTags,
      d \in {<<>>, <<decl_color_a>>, <<decl_color_b, decl_width>>},
      kids \in UNION { [1..k -> TreeInner] : k \in 0..MaxChildren } }

\* html::parse with no default.css to read: an empty default stylesheet.
Document(root) == [root |-> root, stylesheets |-> <<[rules |-> <<>>]>>]

StyleTreeInit ==
  /\ PipeInit
  /\ CascadeIdle
  /\ doc \in {Some(Document(r)) : r \in TreeRoots}
  /\ tree_init_box = None
  /\ styled = {}
  /\ looked_up = None
  /\ root_box = None
  /\ treePc = "input"

\* StyleTree::get_style_tree
GetStyleTree ==
  /\ treePc = "input"
  /\ IF style_tree_panics(Unwrap(doc).root, Unwrap(doc).stylesheets)
     THEN /\ treePc' = "panicked"
          /\ styled' = styled
     ELSE /\ treePc' = "styled"
          /\ styled' = style_tree(Unwrap(doc).root, Unwrap(doc).stylesheets, None, <<>>)
  /\ UNCHANGED <<doc, tree_init_box, looked_up, root_box, pipeVars, cascadeVars>>

\* StyledNode::get_val(name) on a node of the style tree
GetVal(id, name) ==
  /\ treePc = "styled"
  /\ id \in {n.id : n \in styled}
  /\ looked_up' = Some([id |-> id, name |-> name, val |-> get_val(styled, id, name)])
  /\ UNCHANGED <<doc, tree_init_box, styled, root_box, treePc, pipeVars, cascadeVars>>

StyleTreeNext ==
  \/ GetStyleTree
  \/ \E id \in {n.id : n \in styled}, name \in {"color", "width"} : GetVal(id, name)

SpecStyleTree == StyleTreeInit /\ [][StyleTreeNext]_vars

\* ------------------------------------------------- style tree: properties
\* The styled nodes on the way from the root to a node, itself included,
\* that declare a property, by depth.
Declaring(id, name) ==
  {k \in 0..Len(id) : name \in DOMAIN StyledNode(styled, SubSeq(id, 1, k)).style}

Deepest(depths) == CHOOSE k \in depths : \A l \in depths : l <= k

\* C12 (inheritance): get_val of color gives the value of the nearest node
\* declaring it on the way up from the node, itself included, and nothing
\* when none declares it; get_val of width, which is not inherited, gives
\* the node's own value or nothing, never an ancestor's.
C12_Inheritance ==
  looked_up # None =>
    LET l == Unwrap(looked_up)
        own == StyledNode(styled, l.id).style
        D == Declaring(l.id, l.name)
    IN  IF l.name = "color"
        THEN l.val = IF D = {} THEN None
                     ELSE Some(StyledNode(styled, SubSeq(l.id, 1, Deepest(D))).style[l.name])
        ELSE l.val = IF l.name \in DOMAIN own THEN Some(own[l.name]) ELSE None

C12_Witness ==
  /\ looked_up # None
  /\ Unwrap(looked_up).name = "color"
  /\ Len(Unwrap(looked_up).id) = 2
  /\ Declaring(Unwrap(looked_up).id, "color") = {0, 1}
  /\ Unwrap(looked_up).val = Some(Unknown(<<"b">>))
  /\ "width" \in DOMAIN StyledNode(styled, SubSeq(Unwrap(looked_up).id, 1, 1)).style

\* C20 (head pruning): no styled node stands for a <head> element or for a
\* node below one, wherever the <head> is in the document, the root
\* included.
C20_HeadPruned ==
  treePc = "styled" =>
    \A n \in styled : \A k \in 0..Len(n.id) :
       ~is_head(NodeAt(Unwrap(doc).root, SubSeq(n.id, 1, k)))

\* -------------------------------------------------------------- box tree
str_block == <<"b", "l", "o", "c", "k">>
str_none == <<"n", "o", "n", "e">>
str_inline == <<"i", "n", "l", "i", "n", "e">>
str_flex == <<"f", "l", "e", "x">>
str_auto == <<"a", "u", "t", "o">>

\* StyledNode::get_display: only a Keyword value selects Block or None.
get_display(tree, id) ==
  LET val == get_val(tree, id, "display")
  IN  IF val # None /\ Unwrap(val).kind = "Keyword"
      THEN IF Unwrap(val).str = str_block THEN "Block"
           ELSE IF Unwrap(val).str = str_none THEN "None"
           ELSE "Inline"
      ELSE "Inline"

\* EdgeSizes::default, RectArea::default, Box::default
EdgeSizes_default ==
  [top |-> f32_zero, right |-> f32_zero, bottom |-> f32_zero, left |-> f32_zero]
RectArea_default ==
  [x |-> f32_zero, y |-> f32_zero, width |-> f32_zero, height |-> f32_zero]
Box_default ==
  [content |-> RectArea_default, padding |-> EdgeSizes_default,
   border |-> EdgeSizes_default, margin |-> EdgeSizes_default]

\* LayoutBox::new.  node is the StyledNode of the box type (none for a
\* Line), text the content of an AnonymousInline.
LayoutBox_new(box_type, node, text) ==
  [box_model |-> Box_default, box_type |-> box_type, node |-> node, text |-> text,
   children |-> <<>>, glyphs |-> <<>>]

\* (mutant) a block opens a new anonymous block for every inline child.
push_inline_new_container(self, child) ==
  IF self.box_type = "Block"
  THEN [self EXCEPT !.children =
          Append(@, [LayoutBox_new("AnonymousBlock", self.node, "")
                       EXCEPT !.children = <<child>>])]
  ELSE [self EXCEPT !.children = Append(@, child)]

\* self.get_inline_container().children.push(child)
push_inline(self, child) ==
  IF self.box_type = "Block"
  THEN IF self.children # <<>> /\ Last(self.children).box_type = "AnonymousBlock"
       THEN [self EXCEPT !.children[Len(self.children)].children = Append(@, child)]
       ELSE [self EXCEPT !.children =
               Append(@, [LayoutBox_new("AnonymousBlock", self.node, "")
                            EXCEPT !.children = <<child>>])]
  ELSE [self EXCEPT !.children = Append(@, child)]

\* get_layout_tree_struct panics when the root's display is none.
get_layout_tree_struct_panics(tree, id) == get_display(tree, id) = "None"

\* layout::get_layout_tree_struct
RECURSIVE get_layout_tree_struct(_, _)
RECURSIVE push_children(_, _, _, _)
push_children(tree, root, children, i) ==
  IF i > Len(children) THEN root
  ELSE LET display == get_display(tree, children[i])
       IN  IF display = "Block"
           THEN push_children(tree,
                  [root EXCEPT !.children =
                     Append(@, get_layout_tree_struct(tree, children[i]))],
                  children, i + 1)
           ELSE IF display = "Inline"
           THEN push_children(tree,
                  push_inline(root, get_layout_tree_struct(tree, children[i])),
                  children, i + 1)
           ELSE push_children(tree, root, children, i + 1)

get_layout_tree_struct(tree, id) ==
  LET style_node == StyledNode(tree, id)
      root == IF get_display(tree, id) = "Block"
              THEN LayoutBox_new("Block", id, "")
              ELSE IF style_node.kind = "Text"
              THEN LayoutBox_new("AnonymousInline", id, style_node.data)
              ELSE LayoutBox_new("Inline", id, "")
  IN  push_children(tree, root, style_node.children, 1)

\* A styled tree given directly, as a test of layout builds one: the style
\* maps hold CSSValues.
RECURSIVE StyledTree(_, _, _)
StyledTree(shape, parent, id) ==
  {[id |-> id, kind |-> shape.kind, data |-> shape.data, style |-> shape.style,
    parent |-> parent,
    children |-> [k \in DOMAIN shape.children |-> Append(id, k)]]}
  \cup UNION { StyledTree(shape.children[k], Some(id), Append(id, k)) :
                 k \in DOMAIN shape.children }

styled_text(data) == [kind |-> "Text", data |-> data, style |-> <<>>, children |-> <<>>]
styled_element(style_map, children) ==
  [kind |-> "Element", data |-> "", style |-> style_map, children |-> children]

display_is(str) == [n \in {"display"} |-> Keyword(str)]

BoxTreeChildren ==
  { styled_text("t"),
    styled_element(<<>>, <<>>),
    styled_element(display_is(str_block), <<>>),
    styled_element(display_is(str_none), <<styled_text("t")>>),
    styled_element(<<>>, <<styled_element(display_is(str_block), <<>>)>>),
    styled_element(display_is(str_block), <<styled_element(<<>>, <<>>)>>) }

BoxTreeRoots ==
  { styled_element(d, kids) :
      d \in {<<>>, display_is(str_block), display_is(str_none)},
      kids \in UNION { [1..k -> BoxTreeChildren] : k \in 0..MaxBoxChildren } }

BoxTreeInit ==
  /\ PipeInit
  /\ CascadeIdle
  /\ doc = None
  /\ tree_init_box = None
  /\ styled \in {StyledTree(r, None, <<>>) : r \in BoxTreeRoots}
  /\ looked_up = None
  /\ root_box = None
  /\ treePc = "styled"

\* get_layout_tree: let mut root_box = get_layout_tree_struct(style_tree)
GetLayoutTreeStruct ==
  /\ treePc = "styled"
  /\ IF get_layout_tree_struct_panics(styled, <<>>)
     THEN /\ treePc' = "panicked"
          /\ root_box' = root_box
     ELSE /\ treePc' = "boxes"
          /\ root_box' = Some(get_layout_tree_struct(styled, <<>>))
  /\ UNCHANGED <<doc, tree_init_box, styled, looked_up, pipeVars, cascadeVars>>

BoxTreeNext == GetLayoutTreeStruct

SpecBoxTree == BoxTreeInit /\ [][BoxTreeNext]_vars

\* ---------------------------------------------------- box tree: properties
\* Every box of a box tree.
RECURSIVE Boxes(_)
Boxes(b) == {b} \cup UNION {Boxes(b.children[i]) : i \in DOMAIN b.children}

InlineLevel(b) == b.box_type \in {"Inline", "AnonymousInline"}

\* The styled children of a box's node that are displayed, in document order.
RECURSIVE Displayed(_, _)
Displayed(children, i) ==
  IF i > Len(children) THEN <<>>
  ELSE IF get_display(styled, children[i]) = "None" THEN Displayed(children, i + 1)
  ELSE <<children[i]>> \o Displayed(children, i + 1)

\* The nodes a block's children stand for: a wrapper for those of the boxes
\* inside it.
RECURSIVE Unwrapped(_, _)
Unwrapped(children, i) ==
  IF i > Len(children) THEN <<>>
  ELSE (IF children[i].box_type = "AnonymousBlock"
        THEN [j \in DOMAIN children[i].children |-> children[i].children[j].node]
        ELSE <<children[i].node>>)
       \o Unwrapped(children, i + 1)

\* C18 (anonymous blocks): in the box tree no Block has an inline-level box
\* as a direct child; its children are Blocks and AnonymousBlocks that
\* together hold the displayed children of its node in document order, an
\* AnonymousBlock holds inline-level boxes only and at least one, and no two
\* AnonymousBlocks are neighbours (a run of inline children shares one).
C18_AnonymousBlocks ==
  treePc = "boxes" =>
    \A b \in Boxes(Unwrap(root_box)) :
      b.box_type = "Block" =>
        /\ \A i \in DOMAIN b.children :
             /\ b.children[i].box_type \in {"Block", "AnonymousBlock"}
             /\ b.children[i].box_type = "AnonymousBlock" =>
                  /\ b.children[i].children # <<>>
                  /\ \A j \in DOMAIN b.children[i].children :
                       InlineLevel(b.children[i].children[j])
                  /\ i > 1 => b.children[i - 1].box_type # "AnonymousBlock"
        /\ Unwrapped(b.children, 1) = Displayed(StyledNode(styled, b.node).children, 1)

C18_Witness ==
  /\ treePc = "boxes"
  /\ Unwrap(root_box).box_type = "Block"
  /\ Len(Unwrap(root_box).children) = 3
  /\ Unwrap(root_box).children[1].box_type = "AnonymousBlock"
  /\ Unwrap(root_box).children[1].children[1].box_type = "Inline"
  /\ Unwrap(root_box).children[2].box_type = "Block"
  /\ Unwrap(root_box).children[3].box_type = "AnonymousBlock"
  /\ Unwrap(root_box).children[3].children[1].box_type = "AnonymousInline"

\* --------------------------------------------- display, from source text
\* Parser::parse_prop_value: a declaration from its property and the text
\* of its value.
parse_prop_value(prop, text) == [prop |-> prop, value |-> parse_value(text)]

decl_display(text) == [prop |-> "display", value |-> text, terminated |-> TRUE]

\* <style>p { display: block; }</style>
sheet_p_block ==
  [rules |-> <<[selectors |-> <<[id |-> <<>>, class |-> <<>>, tag |-> Some("p")]>>,
                prop_value_set |-> <<parse_prop_value("display", str_block)>>]>>]

DisplayTexts == {str_block, str_none, str_inline, str_flex}

DisplayChildren ==
  { dom_element("div", StyleAttr(<<decl_display(t)>>), <<dom_text("t")>>) :
      t \in DisplayTexts }
  \cup { dom_element("div", StyleAttr(<<>>), <<>>),
         dom_element("p", StyleAttr(<<>>), <<>>) }

DisplayRoots ==
  { dom_element("div", StyleAttr(d), kids) :
      d \in {<<>>, <<decl_display(str_block)>>},
      kids \in UNION { [1..k -> DisplayChildren] : k \in 0..MaxChildren } }

DisplayInit ==
  /\ PipeInit
  /\ CascadeIdle
  /\ doc \in { Some([root |-> r, stylesheets |-> <<[rules |-> <<>>], sheet_p_block>>]) :
                 r \in DisplayRoots }
  /\ tree_init_box = None
  /\ styled = {}
  /\ looked_up = None
  /\ root_box = None
  /\ treePc = "input"

DisplayNext == GetStyleTree \/ GetLayoutTreeStruct

SpecDisplay == DisplayInit /\ [][DisplayNext]_vars

\* The text of the display declaration that won the cascade for a styled
\* node, None without one.
DisplayText(n) ==
  IF "display" \in DOMAIN n.style THEN Some(n.style["display"].str) ELSE None

IsPrefix(p, q) == Len(p) <= Len(q) /\ SubSeq(q, 1, Len(p)) = p

\* The element lies below an element declared display: none.
BelowNone(n) ==
  \E a \in styled :
     /\ Len(a.id) < Len(n.id) /\ IsPrefix(a.id, n.id)
     /\ DisplayText(a) = Some(str_none)

\* C19 (display selection): for an element whose display declaration comes
\* from source text, block gives a Block box, none gives no box for the
\* element nor for anything below it, and inline, another value or no
\* declaration gives an Inline box.
C19_DisplaySelection ==
  treePc = "boxes" =>
    \A n \in styled :
      (n.kind = "Element" /\ ~BelowNone(n)) =>
        LET of_n == {b \in Boxes(Unwrap(root_box)) :
                       b.node = n.id /\ b.box_type # "AnonymousBlock"}
        IN  IF DisplayText(n) = Some(str_block)
            THEN \E b \in of_n : b.box_type = "Block"
            ELSE IF DisplayText(n) = Some(str_none)
            THEN \A b \in Boxes(Unwrap(root_box)) : ~IsPrefix(n.id, b.node)
            ELSE \E b \in of_n : b.box_type = "Inline"

\* ------------------------------------------------------ the width solver
\* CSSValue == CSSValue, structural: the same variant with the same
\* contents.
css_eq(a, b) == a = b

\* (mutant) an undeclared margin is auto.
look_up_margin_auto(tree, id, key, init_key, init_val) ==
  LET own_val == get_val(tree, id, key)
      init_key_val == get_val(tree, id, init_key)
  IN  IF own_val # None THEN Unwrap(own_val)
      ELSE IF init_key_val # None THEN Unwrap(init_key_val)
      ELSE IF init_key = "margin" THEN Keyword(str_auto)
      ELSE init_val

\* StyledNode::look_up: the property, else the shorthand, else init_val.
look_up(tree, id, key, init_key, init_val) ==
  LET own_val == get_val(tree, id, key)
      init_key_val == get_val(tree, id, init_key)
  IN  IF own_val # None THEN Unwrap(own_val)
      ELSE IF init_key_val # None THEN Unwrap(init_key_val)
      ELSE init_val

\* [..].iter().map(|val| val.to_px()).sum(): f32 additions, left to right,
\* from 0.
RECURSIVE sum_px(_, _)
sum_px(vals, n) ==
  IF n = 0 THEN f32_zero ELSE f32_add(sum_px(vals, n - 1), to_px(vals[n]))

\* (mutant) the case without an auto keeps margin-right as declared.
solve_block_width_keep_margin(width0, margin_left0, margin_right0, total_width, containing_width) ==
  LET auto == Keyword(str_auto)
      rest_width == f32_sub(containing_width, total_width)
  IN  IF css_eq(width0, auto) \/ css_eq(margin_left0, auto) \/ css_eq(margin_right0, auto)
      THEN [width |-> IF css_eq(width0, auto) THEN Length(rest_width, "Px") ELSE width0,
            margin_left |-> IF css_eq(margin_left0, auto) THEN Length(rest_width, "Px")
                            ELSE margin_left0,
            margin_right |-> margin_right0]
      ELSE [width |-> width0, margin_left |-> margin_left0, margin_right |-> margin_right0]

\* The three values the solver may change, after the overflow step and the
\* match on (width == auto, margin_left == auto, margin_right == auto).
solve_block_width(width0, margin_left0, margin_right0, total_width, containing_width) ==
  LET auto == Keyword(str_auto)
      zero == Length(f32_zero, "Px")
      overflow == ~css_eq(width0, auto) /\ f32_gt(total_width, containing_width)
      margin_left1 == IF overflow /\ css_eq(margin_left0, auto) THEN zero ELSE margin_left0
      margin_right1 == IF overflow /\ css_eq(margin_right0, auto) THEN zero ELSE margin_right0
      rest_width == f32_sub(containing_width, total_width)
      left_auto == css_eq(margin_left1, auto)
      right_auto == css_eq(margin_right1, auto)
  IN  IF ~css_eq(width0, auto)
      THEN IF ~left_auto /\ ~right_auto
           THEN [width |-> width0, margin_left |-> margin_left1,
                 margin_right |-> Length(f32_add(to_px(margin_right1), rest_width), "Px")]
           ELSE IF left_auto /\ ~right_auto
           THEN [width |-> width0, margin_left |-> Length(rest_width, "Px"),
                 margin_right |-> margin_right1]
           ELSE IF ~left_auto /\ right_auto
           THEN [width |-> width0, margin_left |-> margin_left1,
                 margin_right |-> Length(rest_width, "Px")]
           ELSE [width |-> width0, margin_left |-> Length(f32_div2(rest_width), "Px"),
                 margin_right |-> Length(f32_div2(rest_width), "Px")]
      ELSE LET margin_left2 == IF left_auto THEN zero ELSE margin_left1
               margin_right2 == IF right_auto THEN zero ELSE margin_right1
           IN  IF f32_lt(rest_width, f32_zero)
               THEN [width |-> zero, margin_left |-> margin_left2,
                     margin_right |-> Length(f32_add(to_px(margin_right2), rest_width), "Px")]
               ELSE [width |-> Length(rest_width, "Px"), margin_left |-> margin_left2,
                     margin_right |-> margin_right2]

\* The seven values calc_block_width reads, in the order of its sum:
\* margin-left, border-left-width, padding-left, width, padding-right,
\* border-right-width, margin-right.
horizontal_values(self, tree, is_anonymous) ==
  LET auto == Keyword(str_auto)
      zero == Length(f32_zero, "Px")
      own_width == get_val(tree, self.node, "width")
      edge(key, init_key) ==
        IF is_anonymous THEN zero ELSE look_up(tree, self.node, key, init_key, zero)
  IN  << edge("margin-left", "margin"),
         edge("border-left-width", "border-width"),
         edge("padding-left", "padding"),
         IF own_width = None THEN auto ELSE Unwrap(own_width),
         edge("padding-right", "padding"),
         edge("border-right-width", "border-width"),
         edge("margin-right", "margin") >>

\* The end of calc_block_width: the box model takes the px of the values.
commit_widths(self, read, solved) ==
  [self EXCEPT !.box_model.content.width = to_px(solved.width),
               !.box_model.padding.left = to_px(read[3]),
               !.box_model.padding.right = to_px(read[5]),
               !.box_model.border.left = to_px(read[2]),
               !.box_model.border.right = to_px(read[6]),
               !.box_model.margin.left = to_px(solved.margin_left),
               !.box_model.margin.right = to_px(solved.margin_right)]

\* LayoutBox::calc_block_width
calc_block_width(self, tree, containing_block, is_anonymous) ==
  CHOOSE with_width \in
    { commit_widths(self, read,
                    solve_block_width(read[4], read[1], read[7], sum_px(read, 7),
                                      containing_block.content.width)) :
        read \in {horizontal_values(self, tree, is_anonymous)} } : TRUE

\* Values as the source text gives them, and the auto of the solver.
text_200px == <<"2", "0", "0", "p", "x">>
text_0_1 == <<"0", ".", "1">>
text_0_3 == <<"0", ".", "3">>
text_0_7 == <<"0", ".", "7">>
text_1_5 == <<"1", ".", "5">>
text_5 == <<"5">>
text_10 == <<"1", "0">>

MarginValues ==
  {None, Some(Keyword(str_auto)), Some(parse_value(str_auto)), Some(parse_value(text_0_7))}
WidthValues ==
  {None, Some(Keyword(str_auto)), Some(parse_value(text_200px)), Some(parse_value(text_0_1))}

\* The style map holding the declared ones of the given values.
style_of(declared) ==
  [n \in {k \in DOMAIN declared : declared[k] # None} |-> Unwrap(declared[n])]

WidthStyles ==
  { style_of(("margin-left" :> ml) @@ ("margin-right" :> mr) @@ ("width" :> w)
             @@ ("margin" :> m) @@ ("padding-left" :> pl) @@ ("padding-right" :> pr)
             @@ ("border-left-width" :> bl) @@ ("border-right-width" :> br)) :
      ml \in MarginValues, mr \in MarginValues, w \in WidthValues,
      m \in {None, Some(parse_value(text_5))},
      pl \in {None, Some(parse_value(text_1_5))},
      pr \in {None, Some(parse_value(text_0_3))},
      bl \in {None, Some(parse_value(text_0_7))},
      br \in {None, Some(parse_value(text_10))} }

\* Containing blocks: Box::default with a content width.
ContainingWidths == {100, 800}
ContainingBlock(w) == [Box_default EXCEPT !.content.width = f32_whole(w)]

WidthInit ==
  /\ PipeInit
  /\ CascadeIdle
  /\ doc = None
  /\ looked_up = None
  /\ \E s \in WidthStyles, w \in ContainingWidths, t \in {"Block", "AnonymousBlock"} :
       /\ styled = StyledTree(styled_element(s, <<>>), None, <<>>)
       /\ tree_init_box = Some(ContainingBlock(w))
       /\ root_box = Some(LayoutBox_new(t, <<>>, ""))
  /\ treePc = "boxes"

\* calc_block_layout's first step, as calc_layout calls it for a Block
\* (is_anonymous false) and for an AnonymousBlock (true).
CalcBlockWidth ==
  /\ treePc = "boxes"
  /\ root_box' = Some(calc_block_width(Unwrap(root_box), styled, Unwrap(tree_init_box),
                                       Unwrap(root_box).box_type = "AnonymousBlock"))
  /\ treePc' = "width"
  /\ UNCHANGED <<pipeVars, cascadeVars, doc, tree_init_box, styled, looked_up>>

WidthNext == CalcBlockWidth

SpecWidth == WidthInit /\ [][WidthNext]_vars

\* The box the solver works on, the values it read and the containing width.
SolverBox == Unwrap(root_box)
SolverAnonymous == SolverBox.box_type = "AnonymousBlock"
SolverRead == horizontal_values(SolverBox, styled, SolverAnonymous)
SolverDeclared(name) == name \in DOMAIN StyledNode(styled, <<>>).style
ContainingWidth == Unwrap(tree_init_box).content.width
SolverSlack == f32_sub(ContainingWidth, sum_px(SolverRead, 7))

\* Each input is a length (the parser reads no sign, so none is negative)
\* or, for the margins and the width, auto.
AllowedInputs ==
  \A i \in 1..7 :
     \/ SolverRead[i].kind = "Length"
     \/ i \in {1, 4, 7} /\ SolverRead[i] = Keyword(str_auto)

OriginallyOverflowing == f32_gt(sum_px(SolverRead, 7), ContainingWidth)

\* A whole number, as an f32.
IsWhole(x) == x.m = 0 \/ x.e >= 0 \/ x.m % (2^(0 - x.e)) = 0
WholeInputs == \A i \in 1..7 : IsWhole(to_px(SolverRead[i]))

\* margin.left + border.left + padding.left + content.width + padding.right
\* + border.right + margin.right, on f32 as the expression is written.
CommittedSum(b) ==
  f32_add(f32_add(f32_add(f32_add(f32_add(f32_add(
    b.margin.left, b.border.left), b.padding.left), b.content.width),
    b.padding.right), b.border.right), b.margin.right)

style_centered ==
  style_of(("width" :> Some(parse_value(text_200px)))
           @@ ("margin-left" :> Some(parse_value(str_auto)))
           @@ ("margin-right" :> Some(parse_value(str_auto))))

\* C14 (auto-margin resolution): with width: 200px and both margins
\* declared auto, a containing width of 800 gives margins 300 and 300, and a
\* containing width of 100 gives margin-left 0 and margin-right -100.
C14_AutoMargins ==
  (treePc = "width" /\ ~SolverAnonymous
     /\ StyledNode(styled, <<>>).style = style_centered) =>
    /\ ContainingWidth = f32_whole(800) =>
         /\ SolverBox.box_model.margin.left = f32_whole(300)
         /\ SolverBox.box_model.margin.right = f32_whole(300)
    /\ ContainingWidth = f32_whole(100) =>
         /\ SolverBox.box_model.margin.left = f32_zero
         /\ SolverBox.box_model.margin.right = f32_neg(f32_whole(100))

NoMarginDeclared ==
  ~SolverDeclared("margin-left") /\ ~SolverDeclared("margin-right")
  /\ ~SolverDeclared("margin")

\* What no declaration of padding, border or width gives a block.
UndeclaredPaddingBorderWidth ==
  /\ ~SolverDeclared("padding-left") => SolverBox.box_model.padding.left = f32_zero
  /\ ~SolverDeclared("padding-right") => SolverBox.box_model.padding.right = f32_zero
  /\ ~SolverDeclared("border-left-width") => SolverBox.box_model.border.left = f32_zero
  /\ ~SolverDeclared("border-right-width") => SolverBox.box_model.border.right = f32_zero
  /\ ~SolverDeclared("width") =>
       SolverBox.box_model.content.width =
         IF f32_lt(SolverSlack, f32_zero) THEN f32_zero ELSE SolverSlack

\* C15 (width-solver defaults): a block that declares no padding or border
\* gets 0 for it, one that declares no width gets the width of auto, and one
\* with an explicit width and no margin declaration is resolved as with both
\* margins auto: each margin gets half of the slack.
C15_DefaultsAuto ==
  (treePc = "width" /\ ~SolverAnonymous) =>
    /\ UndeclaredPaddingBorderWidth
    /\ (NoMarginDeclared /\ SolverRead[4].kind = "Length" /\ ~OriginallyOverflowing) =>
         /\ SolverBox.box_model.margin.left = f32_div2(SolverSlack)
         /\ SolverBox.box_model.margin.right = f32_div2(SolverSlack)

\* C15, amended: undeclared margins are 0 like padding and border, so a
\* block with an explicit width and no margin declaration keeps margin-left
\* 0 and gets the whole slack as margin-right.
C15_DefaultsZero ==
  (treePc = "width" /\ ~SolverAnonymous) =>
    /\ UndeclaredPaddingBorderWidth
    /\ (NoMarginDeclared /\ SolverRead[4].kind = "Length") =>
         /\ SolverBox.box_model.margin.left = f32_zero
         /\ SolverBox.box_model.margin.right = SolverSlack

C15_Witness ==
  /\ treePc = "width" /\ ~SolverAnonymous
  /\ DOMAIN StyledNode(styled, <<>>).style = {"width"}
  /\ SolverBox.box_model.content.width = f32_whole(200)
  /\ SolverBox.box_model.margin.left = f32_zero
  /\ SolverBox.box_model.margin.right = f32_whole(600)

\* ------------------------------------------------------------ block layout
\* (mutant) the rectangle grows by the left and top edge only.
expanded_by_left_top(self, edge) ==
  [x |-> f32_sub(self.x, edge.left),
   y |-> f32_sub(self.y, edge.top),
   width |-> f32_add(self.width, edge.left),
   height |-> f32_add(self.height, edge.top)]

\* (mutant) the rectangle moves without growing.
expanded_by_moved(self, edge) ==
  [x |-> f32_sub(self.x, edge.left),
   y |-> f32_sub(self.y, edge.top),
   width |-> self.width,
   height |-> self.height]

\* RectArea::expanded_by
expanded_by(self, edge) ==
  [x |-> f32_sub(self.x, edge.left),
   y |-> f32_sub(self.y, edge.top),
   width |-> f32_add(f32_add(self.width, edge.left), edge.right),
   height |-> f32_add(f32_add(self.height, edge.top), edge.bottom)]

\* Box::padding_box, Box::border_box, Box::margin_box
padding_box(self) == expanded_by(self.content, self.padding)
border_box(self) == expanded_by(padding_box(self), self.border)
margin_box(self) == expanded_by(border_box(self), self.margin)

\* LayoutBox::get_box_vertical_info
get_box_vertical_info(self, tree) ==
  IF self.box_type = "AnonymousBlock"
  THEN [margin_top |-> f32_zero, margin_bottom |-> f32_zero,
        border_top |-> f32_zero, border_bottom |-> f32_zero,
        padding_top |-> f32_zero, padding_bottom |-> f32_zero]
  ELSE LET zero == Length(f32_zero, "Px")
           px(key, init_key) == to_px(look_up(tree, self.node, key, init_key, zero))
       IN  [margin_top |-> px("margin-top", "margin"),
            margin_bottom |-> px("margin-bottom", "margin"),
            border_top |-> px("border-top-width", "border-width"),
            border_bottom |-> px("border-bottom-width", "border-width"),
            padding_top |-> px("padding-top", "padding"),
            padding_bottom |-> px("padding-bottom", "padding")]

\* LayoutBox::calc_block_position
calc_block_position(self, tree, containing_block) ==
  CHOOSE positioned \in
    { [self EXCEPT
         !.box_model.margin.top = vertical_info.margin_top,
         !.box_model.margin.bottom = vertical_info.margin_bottom,
         !.box_model.border.top = vertical_info.border_top,
         !.box_model.border.bottom = vertical_info.border_bottom,
         !.box_model.padding.top = vertical_info.padding_top,
         !.box_model.padding.bottom = vertical_info.padding_bottom,
         !.box_model.content.x =
            f32_add(f32_add(f32_add(containing_block.content.x, b.margin.left),
                            b.border.left), b.padding.left),
         !.box_model.content.y =
            f32_add(f32_add(f32_add(f32_add(containing_block.content.y,
                                            containing_block.content.height),
                                    vertical_info.margin_top),
                            vertical_info.border_top), vertical_info.padding_top)] :
        vertical_info \in {get_box_vertical_info(self, tree)},
        b \in {self.box_model} } : TRUE

\* LayoutBox::calc_block_height: an explicit height in px replaces the
\* height the children gave.
calc_block_height(self, tree) ==
  LET height == get_val(tree, self.node, "height")
  IN  IF height # None /\ Unwrap(height).kind = "Length" /\ Unwrap(height).unit = "Px"
      THEN [self EXCEPT !.box_model.content.height = Unwrap(height).num]
      ELSE self

\* LayoutBox::flat_inline_box: the AnonymousInline leaves of an Inline box,
\* depth first.
RECURSIVE flat_inline_box(_, _)
flat_inline_box(self, i) ==
  IF i > Len(self.children) THEN <<>>
  ELSE LET child == self.children[i]
           flat == IF child.box_type = "AnonymousInline" THEN <<child>>
                   ELSE IF child.box_type = "Inline" THEN flat_inline_box(child, 1)
                   ELSE <<>>
       IN  flat \o flat_inline_box(self, i + 1)

\* The first loop of LayoutBox::calc_block_line_box: Inline children are
\* replaced by their flattened leaves.
RECURSIVE all_children(_, _)
all_children(self, i) ==
  IF i > Len(self.children) THEN <<>>
  ELSE LET cur_child == self.children[i]
           kept == IF cur_child.box_type \in {"Block", "AnonymousBlock", "AnonymousInline"}
                   THEN <<cur_child>>
                   ELSE IF cur_child.box_type = "Inline" THEN flat_inline_box(cur_child, 1)
                   ELSE <<>>
       IN  kept \o all_children(self, i + 1)

\* A box tree without text: nothing in it is an AnonymousInline.
RECURSIVE text_free(_)
text_free(self) ==
  /\ self.box_type # "AnonymousInline"
  /\ \A i \in DOMAIN self.children : text_free(self.children[i])

\* The text runs of the laid-out documents and what fontdue measures for
\* them at 16px: glyphs sit at whole pixels, GlyphAdvance apart, on one
\* line of LineHeight.
TextRuns == <<"t", "tt", "ttt">>
GlyphAdvance == 8
LineHeight == 19
glyph_count(text) == CHOOSE n \in DOMAIN TextRuns : TextRuns[n] = text

\* LayoutBox::calc_text_layout, in f32: (last_text.x + last_text.width,
\* layout.height()) and the glyphs the layout holds afterwards.
text_layout_of(text) ==
  [w |-> f32_whole(GlyphAdvance * glyph_count(text)),
   h |-> f32_whole(LineHeight),
   glyphs |-> [i \in 1..glyph_count(text) |->
                 [key |-> text, x |-> GlyphAdvance * (i - 1), width |-> GlyphAdvance]]]

\* children.iter().map(content.width).sum::<f32>() over the first n children
RECURSIVE sum_content_width(_, _)
sum_content_width(children, n) ==
  IF n = 0 THEN f32_zero
  ELSE f32_add(sum_content_width(children, n - 1), children[n].box_model.content.width)

\* (mutant) a Line counts as empty however much it holds.
line_rest_width_whole(self) ==
  IF self.box_type = "Line" THEN self.box_model.content.width ELSE f32_zero

\* LayoutBox::get_line_rest_width, in f32
line_rest_width(self) ==
  IF self.box_type = "Line"
  THEN f32_sub(self.box_model.content.width,
               sum_content_width(self.children, Len(self.children)))
  ELSE f32_zero

\* LayoutBox::new(BoxType::Line) with the width of the block it is opened in
new_line(self) ==
  [LayoutBox_new("Line", None, "") EXCEPT
     !.box_model.content.width = self.box_model.content.width]

\* One turn of the second loop of LayoutBox::calc_block_line_box: a Block or
\* AnonymousBlock is kept; an AnonymousInline is measured and goes to the
\* last Line of the list if it fits there (a Line is opened when the list
\* has none), else to a Line opened for it.
place_child(self, lines, cur_child) ==
  IF cur_child.box_type \in {"Block", "AnonymousBlock"} THEN Append(lines, cur_child)
  ELSE IF cur_child.box_type = "AnonymousInline"
  THEN LET m == text_layout_of(cur_child.text)
           measured == [cur_child EXCEPT !.box_model.content.width = m.w,
                                         !.box_model.content.height = m.h,
                                         !.glyphs = m.glyphs]
           with_line == IF \E k \in DOMAIN lines : lines[k].box_type = "Line"
                        THEN lines ELSE Append(lines, new_line(self))
           last_line == CHOOSE k \in DOMAIN with_line :
                          /\ with_line[k].box_type = "Line"
                          /\ \A j \in DOMAIN with_line :
                               with_line[j].box_type = "Line" => j <= k
       IN  CHOOSE placed \in
             { IF f32_ge(rest_width, m.w)
               THEN [with_line EXCEPT ![last_line].children =
                       Append(@, [measured EXCEPT !.box_model.content.x =
                                    f32_sub(with_line[last_line].box_model.content.width,
                                            rest_width)])]
               ELSE Append(with_line,
                           [new_line(self) EXCEPT !.children =
                              <<[measured EXCEPT !.box_model.content.x = f32_zero]>>]) :
                 rest_width \in {line_rest_width(with_line[last_line])} } : TRUE
  ELSE lines

RECURSIVE place_children(_, _, _, _)
place_children(self, all, i, lines) ==
  IF i > Len(all) THEN lines
  ELSE CHOOSE r \in { place_children(self, all, i + 1, placed) :
                        placed \in {place_child(self, lines, all[i])} } : TRUE

\* LayoutBox::calc_block_line_box, in f32: the children are flattened, then
\* regrouped into line_and_children.
line_and_children(self) ==
  IF self.children = <<>> THEN self
  ELSE [self EXCEPT !.children = place_children(self, all_children(self, 1), 1, <<>>)]

\* LayoutBox::calc_line_box_layout takes max_by(..).unwrap() over the
\* children's heights: it panics on a Line without children.
line_box_panics(self) == self.box_type = "Line" /\ self.children = <<>>

RECURSIVE max_height(_, _)
max_height(children, n) ==
  IF n = 1 THEN children[1].box_model.content.height
  ELSE LET before == max_height(children, n - 1)
           h == children[n].box_model.content.height
       IN  IF f32_lt(h, before) THEN before ELSE h

\* LayoutBox::calc_line_box_layout: the Line starts at the running height of
\* its containing block, is as high as its highest child, and its children
\* move by its origin.
calc_line_box_layout(self, containing_block) ==
  IF line_box_panics(self) THEN self
  ELSE LET x == containing_block.content.x
           y == f32_add(containing_block.content.y, containing_block.content.height)
       IN  [self EXCEPT
              !.box_model.content.x = x,
              !.box_model.content.y = y,
              !.box_model.content.height = max_height(self.children, Len(self.children)),
              !.children = [i \in DOMAIN self.children |->
                              [self.children[i] EXCEPT
                                 !.box_model.content.x = f32_add(@, x),
                                 !.box_model.content.y = f32_add(@, y)]]]

RECURSIVE calc_layout(_, _, _)
RECURSIVE calc_block_boxes(_, _, _)

\* (mutant) the running height grows by the child's border box only.
calc_block_boxes_border_height(self, tree, i) ==
  IF i > Len(self.children) THEN self
  ELSE CHOOSE done \in
         { calc_block_boxes(grown, tree, i + 1) :
             grown \in
               { [self EXCEPT !.children[i] = child,
                              !.box_model.content.height =
                                 f32_add(@, border_box(child.box_model).height)] :
                   child \in {calc_layout(self.children[i], tree, self.box_model)} } } : TRUE

\* LayoutBox::calc_block_children, after calc_block_line_box: each child is
\* laid out in the box as it stands, then its margin_box height is added to
\* the box's content height.
calc_block_boxes(self, tree, i) ==
  IF i > Len(self.children) THEN self
  ELSE CHOOSE done \in
         { calc_block_boxes(grown, tree, i + 1) :
             grown \in
               { [self EXCEPT !.children[i] = child,
                              !.box_model.content.height =
                                 f32_add(@, margin_box(child.box_model).height)] :
                   child \in {calc_layout(self.children[i], tree, self.box_model)} } } : TRUE

\* LayoutBox::calc_block_layout: width, position, children, height; each
\* step works on the result of the one before.
calc_block_layout(self, tree, containing_block, is_anonymous) ==
  CHOOSE laid \in
    { calc_block_height(with_children, tree) :
        with_children \in
          { calc_block_boxes(line_and_children(positioned), tree, 1) :
              positioned \in
                { calc_block_position(with_width, tree, containing_block) :
                    with_width \in
                      {calc_block_width(self, tree, containing_block, is_anonymous)} } } } :
      TRUE

\* LayoutBox::calc_layout
calc_layout(self, tree, containing_block) ==
  IF self.box_type = "Block" THEN calc_block_layout(self, tree, containing_block, FALSE)
  ELSE IF self.box_type = "AnonymousBlock"
  THEN calc_block_layout(self, tree, containing_block, TRUE)
  ELSE IF self.box_type = "Line" THEN calc_line_box_layout(self, containing_block)
  ELSE self

\* Whether the layout met a panic: a Line without children was laid out.
RECURSIVE calc_layout_panics(_)
calc_layout_panics(laid) ==
  \/ line_box_panics(laid)
  \/ \E i \in DOMAIN laid.children : calc_layout_panics(laid.children[i])

\* Styled trees of blocks.  Every element but the span is display: block;
\* lengths are as the parser reads them, some whole and some not.
block_style(declared) ==
  style_of(declared @@ ("display" :> Some(Keyword(str_block))))

style_plain == block_style(<<>>)
style_auto_margins ==
  block_style(("width" :> Some(parse_value(text_200px)))
              @@ ("margin-left" :> Some(Keyword(str_auto)))
              @@ ("margin-right" :> Some(Keyword(str_auto))))
style_framed ==
  block_style(("width" :> Some(parse_value(text_200px)))
              @@ ("padding" :> Some(parse_value(text_5)))
              @@ ("border-width" :> Some(parse_value(text_10)))
              @@ ("height" :> Some(parse_value(text_10))))
style_fractional ==
  block_style(("width" :> Some(parse_value(text_0_1)))
              @@ ("padding-left" :> Some(parse_value(text_1_5)))
              @@ ("padding-right" :> Some(parse_value(text_0_3)))
              @@ ("border-left-width" :> Some(parse_value(text_0_7)))
              @@ ("margin-right" :> Some(parse_value(text_0_7)))
              @@ ("margin-top" :> Some(parse_value(text_0_1)))
              @@ ("padding-top" :> Some(parse_value(text_0_7)))
              @@ ("border-bottom-width" :> Some(parse_value(text_0_3))))
style_margins ==
  block_style(("margin" :> Some(parse_value(text_5)))
              @@ ("padding-top" :> Some(parse_value(text_10)))
              @@ ("height" :> Some(parse_value(text_10))))

style_uneven ==
  block_style(("border-top-width" :> Some(parse_value(text_0_1)))
              @@ ("height" :> Some(parse_value(text_0_1)))
              @@ ("padding-bottom" :> Some(parse_value(text_0_7))))

LayoutStyles ==
  {style_plain, style_auto_margins, style_framed, style_fractional, style_margins,
   style_uneven}

LayoutChildren ==
  { styled_element(st, <<>>) : st \in LayoutStyles }
  \cup { styled_element(<<>>, <<>>),
         styled_element(style_plain, <<styled_element(style_framed, <<>>)>>),
         styled_element(style_auto_margins, <<styled_element(style_margins, <<>>)>>) }

LayoutRoots ==
  { styled_element(st, kids) :
      st \in {style_plain, style_framed, style_margins},
      kids \in UNION { [1..k -> LayoutChildren] : k \in 0..MaxChildren } }

LayoutInit ==
  /\ PipeInit
  /\ CascadeIdle
  /\ doc = None
  /\ looked_up = None
  /\ root_box = None
  /\ \E r \in LayoutRoots, w \in ContainingWidths :
       /\ styled = StyledTree(r, None, <<>>)
       /\ tree_init_box = Some(ContainingBlock(w))
  /\ treePc = "styled"

\* LayoutTree::get_layout_tree after the box tree: init_box.content.height
\* = 0.0 and root_box.calc_layout(init_box).  When a Line without children
\* panics the layout, root_box shows the tree as far as it was laid out.
CalcLayout ==
  /\ treePc = "boxes"
  /\ \E laid \in {calc_layout(Unwrap(root_box), styled,
                               [Unwrap(tree_init_box) EXCEPT !.content.height = f32_zero])} :
       /\ root_box' = Some(laid)
       /\ treePc' = IF calc_layout_panics(laid) THEN "panicked" ELSE "laid"
  /\ UNCHANGED <<pipeVars, cascadeVars, doc, tree_init_box, styled, looked_up>>

LayoutNext == GetLayoutTreeStruct \/ CalcLayout

SpecLayout == LayoutInit /\ [][LayoutNext]_vars

\* The boxes of elements after layout (anonymous boxes carry no element of
\* their own).
LaidOutBoxes ==
  {b \in Boxes(Unwrap(root_box)) : b.box_type \in {"Block", "Inline"}}

\* Rectangle outer holds rectangle inner.
Contains(outer, inner) ==
  /\ f32_ge(inner.x, outer.x)
  /\ f32_ge(inner.y, outer.y)
  /\ f32_ge(f32_add(outer.x, outer.width), f32_add(inner.x, inner.width))
  /\ f32_ge(f32_add(outer.y, outer.height), f32_add(inner.y, inner.height))

InnerContainment(b) ==
  /\ Contains(border_box(b), padding_box(b))
  /\ Contains(padding_box(b), b.content)

\* C16 (box containment): after layout, for every box of an element the
\* margin box holds the border box, which holds the padding box, which
\* holds the content box, overflow mode included.
C16_Containment ==
  treePc = "laid" =>
    \A b \in LaidOutBoxes :
       /\ Contains(margin_box(b.box_model), border_box(b.box_model))
       /\ InnerContainment(b.box_model)

NoNegativeMargin(b) ==
  /\ f32_ge(b.margin.left, f32_zero) /\ f32_ge(b.margin.right, f32_zero)
  /\ f32_ge(b.margin.top, f32_zero) /\ f32_ge(b.margin.bottom, f32_zero)

\* The fourteen committed values of a box are whole numbers of pixels.
WholeBox(b) ==
  /\ \A side \in {"top", "right", "bottom", "left"} :
        IsWhole(b.margin[side]) /\ IsWhole(b.border[side]) /\ IsWhole(b.padding[side])
  /\ IsWhole(b.content.width) /\ IsWhole(b.content.height)

\* C16, amended: for a box whose position and values are whole numbers of
\* pixels (else up to the rounding of f32) the border box holds the padding
\* box and the padding box the content box, and the margin box holds the
\* border box when no margin of the box is negative.
C16_ContainmentWhole ==
  treePc = "laid" =>
    \A b \in LaidOutBoxes :
       (WholeBox(b.box_model) /\ IsWhole(b.box_model.content.x)
          /\ IsWhole(b.box_model.content.y)) =>
         /\ InnerContainment(b.box_model)
         /\ NoNegativeMargin(b.box_model)
              => Contains(margin_box(b.box_model), border_box(b.box_model))

\* margin.top + border.top + padding.top + content.height + padding.bottom
\* + border.bottom + margin.bottom, on f32 as the expression is written.
CommittedHeightSum(b) ==
  f32_add(f32_add(f32_add(f32_add(f32_add(f32_add(
    b.margin.top, b.border.top), b.padding.top), b.content.height),
    b.padding.bottom), b.border.bottom), b.margin.bottom)

\* C17 (box-model algebra): after layout, for every box of an element the
\* width of the margin box is the sum of the seven horizontal values and its
\* height the sum of the seven vertical ones.
C17_Algebra ==
  treePc = "laid" =>
    \A b \in LaidOutBoxes :
       /\ margin_box(b.box_model).width = CommittedSum(b.box_model)
       /\ margin_box(b.box_model).height = CommittedHeightSum(b.box_model)

\* C17, amended: the two equalities hold exactly for a box whose values are
\* whole numbers of pixels (else up to the rounding of f32).
C17_AlgebraWhole ==
  treePc = "laid" =>
    \A b \in LaidOutBoxes :
       WholeBox(b.box_model) =>
         /\ margin_box(b.box_model).width = CommittedSum(b.box_model)
         /\ margin_box(b.box_model).height = CommittedHeightSum(b.box_model)

LaidOutRoot == Unwrap(root_box).box_model

C16_Witness ==
  /\ treePc = "laid"
  /\ StyledNode(styled, <<>>).style = style_margins
  /\ WholeBox(LaidOutRoot) /\ NoNegativeMargin(LaidOutRoot)
  /\ LaidOutRoot.margin.left = f32_whole(5) /\ LaidOutRoot.margin.top = f32_whole(5)
  /\ LaidOutRoot.content.x = f32_whole(5)
  /\ LaidOutRoot.content.width = f32_whole(790)
  /\ Len(Unwrap(root_box).children) = 2

C17_Witness ==
  /\ treePc = "laid"
  /\ StyledNode(styled, <<>>).style = style_framed
  /\ WholeBox(LaidOutRoot)
  /\ LaidOutRoot.margin.right = f32_whole(570)
  /\ margin_box(LaidOutRoot).width = f32_whole(800)
  /\ margin_box(LaidOutRoot).height = f32_whole(40)

\* A box of whole pixels in overflow mode whose margin box does not hold its
\* border box.
OverflowEscapes ==
  /\ treePc = "laid"
  /\ StyledNode(styled, <<>>).style = style_framed
  /\ WholeBox(LaidOutRoot)
  /\ LaidOutRoot.margin.right = f32_neg(f32_whole(130))
  /\ ~Contains(margin_box(LaidOutRoot), border_box(LaidOutRoot))

\* ------------------------------------------------- selector lists
\* Rules with a comma-separated list of one or two simple selectors
\* (Parser::parse_selectors), declaring color.
SelectorLists ==
  { <<a>> : a \in Selectors } \cup { <<a, b>> : a \in Selectors, b \in Selectors }

ListRules ==
  { [selectors |-> l, prop_value_set |-> <<[prop |-> "color", value |-> v]>>] :
      l \in SelectorLists, v \in Values }

\* <p class="y" id="x">
element_p_y_x ==
  [tag_name |-> "p",
   attrs |-> [class |-> Some(<<"y">>), id |-> Some(<<"x">>), style |-> None]]

SelectorListInit ==
  /\ PipeInit
  /\ TreeIdle
  /\ element = element_p_y_x
  /\ stylesheets \in { <<[rules |-> <<>>], [rules |-> r]>> :
                         r \in UNION { [1..k -> ListRules] : k \in 0..MaxRules } }
  /\ style = <<>>
  /\ cascadePc = "input"

SpecSelectorList == SelectorListInit /\ [][CascadeNext]_vars

\* The largest of the specificities of the selectors of a rule that match
\* the element.
MostSpecific(rule) ==
  LET hits == { get_specificity(rule.selectors[i]) :
                  i \in {k \in DOMAIN rule.selectors :
                           match_selector(element, rule.selectors[k])} }
  IN  CHOOSE h \in hits : \A o \in hits : o = h \/ LexLess(o, h)

MatchedMostSpecific ==
  { [sheet |-> m.sheet, rule |-> m.rule,
     specificity |-> MostSpecific(stylesheets[m.sheet].rules[m.rule])] : m \in Matched }

\* C30 (specificity of a multi-selector rule): a rule takes part in the
\* cascade with the specificity of its most specific matching selector,
\* wherever that selector stands in the list: the resolved value is that of
\* a matched rule to which every other matched rule loses under these
\* specificities.
C30_ListSpecificity ==
  cascadePc = "styled" =>
    LET M == {m \in MatchedMostSpecific : Declares(m, "color")}
    IN  M # {} =>
          /\ "color" \in DOMAIN style
          /\ \E w \in M :
               /\ style["color"] = ValueOf(w, "color")
               /\ \A o \in M : o = w \/ LosesTo(o, w)

\* ------------------------------------------------------------- join
\* The JoinHandles of PageThread in the order join waits on them.
JoinOrder == <<"html", "style", "layout", "raster">>

join_position(pc) == CHOOSE i \in DOMAIN JoinOrder : JoinOrder[i] = pc

\* PageThread::join(self) is called: the PageThread, html_sender included,
\* is moved into the call.
JoinCall ==
  /\ ProcessAlive
  /\ html_sender = "alive" /\ joinPc = "none"
  /\ joinPc' = JoinOrder[1]
  /\ UNCHANGED <<html_sender, sent, sendResult, htmlQ, styleQ, layoutQ, rasterQ,
                 status, cur, rasterPc, layout_box, document_store, raster_window,
                 display_lock, display_commands, TEXT_LAYOUTS, mainPc, drawIdx,
                 seen, handled, writes, cascadeVars, treeVars>>

\* PageThread::join: self.<worker>_thread.join() returns once that thread has
\* ended, Err if it panicked; ? returns the Err, the last join's result is
\* the result of the call.  The rest of self, html_sender with it, is
\* dropped when the call returns.
JoinThread ==
  /\ ProcessAlive
  /\ joinPc \in Workers
  /\ status[joinPc] # "running"
  /\ IF status[joinPc] = "panicked"
     THEN /\ joinPc' = "Err"
          /\ html_sender' = "dropped"
     ELSE IF join_position(joinPc) < Len(JoinOrder)
     THEN /\ joinPc' = JoinOrder[join_position(joinPc) + 1]
          /\ UNCHANGED html_sender
     ELSE /\ joinPc' = "Ok"
          /\ html_sender' = "dropped"
  /\ UNCHANGED <<sent, sendResult, htmlQ, styleQ, layoutQ, rasterQ,
                 status, cur, rasterPc, layout_box, document_store, raster_window,
                 display_lock, display_commands, TEXT_LAYOUTS, mainPc, drawIdx,
                 seen, handled, writes, cascadeVars, treeVars>>

JoinNext ==
  \/ \E markup \in Markups : Submit(markup)
  \/ DropSender
  \/ HtmlRecv \/ HtmlParse \/ HtmlExit
  \/ StyleRecv \/ StyleSend \/ StyleExit
  \/ LayoutRecv \/ LayoutSend \/ LayoutExit
  \/ RasterRecv \/ RasterLockWindow \/ RasterLayout \/ RasterLockDisplay
  \/ RasterWrite \/ RasterUnlockWindow \/ RasterExit
  \/ JoinCall \/ JoinThread

SpecJoin == Init /\ [][JoinNext]_vars

\* Fair scheduling of the workers, and of the thread inside join: a join
\* whose thread has ended returns.
FairSpecJoin ==
  /\ SpecJoin
  /\ WF_vars(WorkerStep)
  /\ SF_vars(RasterLockWindow \/ RasterLockDisplay)
  /\ WF_vars(JoinThread)

NoWorkerFailed == \A w \in Workers : status[w] # "panicked"

\* C25 (join terminates): a join() called when no worker has failed and every
\* submission has been processed eventually returns Ok(()), with nothing
\* done by any other thread.
C25_JoinTerminates ==
  (joinPc \in Workers /\ NoWorkerFailed /\ Quiescent) ~> (joinPc = "Ok")

\* What the code does instead: such a join waits on html_thread for ever.
C25_JoinBlocks ==
  [](joinPc \in Workers /\ NoWorkerFailed => [](joinPc = "html" \/ ~NoWorkerFailed))

\* ------------------------------------------------------------- display list
DEFAULT_FONT_COLOR == Color(0, 0, 0, 255)
TRANSPARENT == Color(0, 0, 0, 0)

\* PartialEq of CSSColor: equal channels.
color_eq(a, b) == a.r = b.r /\ a.g = b.g /\ a.b = b.b /\ a.a = b.a

Rectangle(color, rect) ==
  [kind |-> "Rectangle", color |-> color, area |-> rect, glyphs |-> <<>>]
Text(info) ==
  [kind |-> "Text", color |-> info.color, area |-> info.area, glyphs |-> info.glyphs]

\* raster::get_color: the Color value of a style property of the box's
\* styled node; an AnonymousBlock and a Line have none.
get_color(tree, lbox, color_name) ==
  IF lbox.box_type \in {"Block", "Inline", "AnonymousInline"}
  THEN LET val == get_val(tree, lbox.node, color_name)
       IN  IF val # None /\ Unwrap(val).kind = "Color" THEN val ELSE None
  ELSE None

\* draw_border's closure draw_one_border
draw_one_border(tree, lbox, name, rect) ==
  LET own == get_color(tree, lbox, name)
      shorthand == get_color(tree, lbox, "border-color")
      color == IF own # None THEN Unwrap(own)
               ELSE IF shorthand # None THEN Unwrap(shorthand)
               ELSE TRANSPARENT
  IN  IF ~color_eq(color, TRANSPARENT) THEN <<Rectangle(color, rect)>> ELSE <<>>

\* The four strips of draw_border inside the border box.
border_strips(box_model, bb) ==
  [top |-> [x |-> bb.x, y |-> bb.y, width |-> bb.width,
            height |-> box_model.border.top],
   right |-> [x |-> f32_sub(f32_add(bb.x, bb.width), box_model.border.right),
              y |-> bb.y, width |-> box_model.border.right, height |-> bb.height],
   bottom |-> [x |-> bb.x,
               y |-> f32_sub(f32_add(bb.y, bb.height), box_model.border.bottom),
               width |-> bb.width, height |-> box_model.border.bottom],
   left |-> [x |-> bb.x, y |-> bb.y, width |-> box_model.border.left,
             height |-> bb.height]]

\* (mutant) the strips are drawn starting from the left one.
draw_border_left_first(tree, lbox) ==
  LET strips == CHOOSE r \in {border_strips(lbox.box_model, bb) :
                                bb \in {border_box(lbox.box_model)}} : TRUE
  IN  draw_one_border(tree, lbox, "border-left-color", strips.left)
      \o draw_one_border(tree, lbox, "border-top-color", strips.top)
      \o draw_one_border(tree, lbox, "border-right-color", strips.right)
      \o draw_one_border(tree, lbox, "border-bottom-color", strips.bottom)

\* raster::draw_border
draw_border(tree, lbox) ==
  LET strips == CHOOSE r \in {border_strips(lbox.box_model, bb) :
                                bb \in {border_box(lbox.box_model)}} : TRUE
  IN  draw_one_border(tree, lbox, "border-top-color", strips.top)
      \o draw_one_border(tree, lbox, "border-right-color", strips.right)
      \o draw_one_border(tree, lbox, "border-bottom-color", strips.bottom)
      \o draw_one_border(tree, lbox, "border-left-color", strips.left)

\* raster::draw_background
draw_background(tree, lbox) ==
  LET color == get_color(tree, lbox, "background-color")
  IN  IF color # None
      THEN <<Rectangle(Unwrap(color), padding_box(lbox.box_model))>>
      ELSE <<>>

\* raster::draw_content
draw_content(tree, lbox) ==
  IF lbox.box_type = "AnonymousInline"
  THEN LET own == get_color(tree, lbox, "color")
           color == IF own # None THEN Unwrap(own) ELSE DEFAULT_FONT_COLOR
       IN  <<Text([color |-> color, area |-> lbox.box_model.content,
                   glyphs |-> lbox.glyphs])>>
  ELSE <<>>

\* raster::get_display_command; i is the position of the for loop over
\* layout_box.children, 0 for the commands of the box itself.
RECURSIVE get_display_command(_, _, _)
get_display_command(tree, lbox, i) ==
  IF i = 0
  THEN draw_border(tree, lbox)
       \o draw_background(tree, lbox)
       \o draw_content(tree, lbox)
       \o get_display_command(tree, lbox, 1)
  ELSE IF i > Len(lbox.children) THEN <<>>
  ELSE get_display_command(tree, lbox.children[i], 0)
       \o get_display_command(tree, lbox, i + 1)

\* raster::get_display_list of a box tree
get_display_list_tree(tree, layout_tree) == get_display_command(tree, layout_tree, 0)

\* The inputs of the display list: styled trees whose elements declare
\* colours for their borders, their background and their text.
red == Color(255, 0, 0, 255)
green == Color(0, 255, 0, 255)
blue == Color(0, 0, 255, 255)
grey == Color(17, 34, 51, 255)

PaintStyles ==
  { <<>>,
    ("background-color" :> red),
    ("background-color" :> Unknown(<<"r", "e", "d">>)),
    ("color" :> green),
    ("border-color" :> blue),
    ("border-color" :> blue) @@ ("border-right-color" :> red)
      @@ ("background-color" :> grey),
    ("border-top-color" :> red) @@ ("border-left-color" :> green)
      @@ ("border-bottom-color" :> Unknown(<<"r", "e", "d">>)) @@ ("color" :> grey),
    ("border-top-color" :> red) @@ ("border-right-color" :> green)
      @@ ("border-bottom-color" :> blue) @@ ("border-left-color" :> grey)
      @@ ("background-color" :> green) }

PaintChildren ==
  { styled_text("t") }
  \cup { styled_element(m, <<styled_text("t")>>) : m \in PaintStyles }
  \cup { styled_element(m @@ display_is(str_block), <<styled_text("t")>>) :
           m \in PaintStyles }

PaintRoots ==
  { styled_element(m @@ display_is(str_block), kids) :
      m \in {<<>>, ("color" :> blue) @@ ("border-color" :> red)},
      kids \in UNION { [1..k -> PaintChildren] : k \in 0..MaxChildren } }

DisplayListInit ==
  /\ PipeInit
  /\ CascadeIdle
  /\ doc = None
  /\ tree_init_box = None
  /\ styled \in {StyledTree(r, None, <<>>) : r \in PaintRoots}
  /\ looked_up = None
  /\ root_box = None
  /\ treePc = "styled"

\* RasterWindow::raster: the display list of the box tree is stored in the
\* slot under its lock, which is released when raster returns.
Raster ==
  /\ treePc = "boxes"
  /\ mutex_free(display_lock)
  /\ display_commands' = get_display_list_tree(styled, Unwrap(root_box))
  /\ treePc' = "rastered"
  /\ UNCHANGED <<html_sender, sent, sendResult, htmlQ, styleQ, layoutQ, rasterQ,
                 status, cur, rasterPc, layout_box, document_store, raster_window,
                 display_lock, TEXT_LAYOUTS, mainPc, drawIdx, seen, handled,
                 writes, joinPc, cascadeVars, doc, tree_init_box, styled,
                 looked_up, root_box>>

DisplayListNext == GetLayoutTreeStruct \/ Raster

SpecDisplayList == DisplayListInit /\ [][DisplayListNext]_vars

\* ----------------------------------------------- display list: properties
\* The boxes of a box tree in pre-order.
RECURSIVE PreOrder(_, _)
PreOrder(b, i) ==
  IF i = 0 THEN <<b>> \o PreOrder(b, 1)
  ELSE IF i > Len(b.children) THEN <<>>
  ELSE PreOrder(b.children[i], 0) \o PreOrder(b, i + 1)

\* The colour a style property of the box's element resolves to, None when
\* the box has no element or the property holds no colour.
DeclaredColour(b, name) ==
  IF b.box_type \in {"AnonymousBlock", "Line"} THEN None
  ELSE LET n == StyledNode(styled, b.node)
       IN  IF name \in DOMAIN n.style /\ n.style[name].kind = "Color"
           THEN Some(n.style[name]) ELSE None

BorderSides == <<"top", "right", "bottom", "left">>

BorderColour(b, side) ==
  LET own == DeclaredColour(b, "border-" \o side \o "-color")
  IN  IF own # None THEN own ELSE DeclaredColour(b, "border-color")

\* The colour of the text of a box: the nearest colour declared on its
\* element or an ancestor, opaque black without one.
RECURSIVE InheritedColour(_)
InheritedColour(id) ==
  LET n == StyledNode(styled, id)
  IN  IF "color" \in DOMAIN n.style
      THEN (IF n.style["color"].kind = "Color" THEN n.style["color"]
            ELSE DEFAULT_FONT_COLOR)
      ELSE IF n.parent = None THEN DEFAULT_FONT_COLOR
      ELSE InheritedColour(Unwrap(n.parent))

\* Kind and colour of the commands one box contributes, in the order of the
\* claim.
RECURSIVE BorderCommands(_, _)
BorderCommands(b, k) ==
  IF k > Len(BorderSides) THEN <<>>
  ELSE (IF BorderColour(b, BorderSides[k]) # None
           /\ Unwrap(BorderColour(b, BorderSides[k])).a # 0
        THEN <<[kind |-> "Rectangle", color |-> Unwrap(BorderColour(b, BorderSides[k])),
                area |-> border_strips(b.box_model, border_box(b.box_model))[BorderSides[k]]]>>
        ELSE <<>>)
       \o BorderCommands(b, k + 1)

BoxCommands(b) ==
  BorderCommands(b, 1)
  \o (IF DeclaredColour(b, "background-color") # None
      THEN <<[kind |-> "Rectangle",
              color |-> Unwrap(DeclaredColour(b, "background-color")),
              area |-> padding_box(b.box_model)]>>
      ELSE <<>>)
  \o (IF b.box_type = "AnonymousInline"
      THEN <<[kind |-> "Text", color |-> InheritedColour(b.node),
              area |-> b.box_model.content]>>
      ELSE <<>>)

RECURSIVE CommandsOf(_)
CommandsOf(boxes) ==
  IF boxes = <<>> THEN <<>>
  ELSE BoxCommands(Head(boxes)) \o CommandsOf(Tail(boxes))

Painted(commands) ==
  [i \in DOMAIN commands |->
     [kind |-> commands[i].kind, color |-> commands[i].color,
      area |-> commands[i].area]]

\* C23 (display-list order): the display list is the concatenation, over the
\* boxes of the tree in pre-order, of each box's commands: a Rectangle for
\* each of its top, right, bottom and left border whose resolved colour is
\* not fully transparent, then a Rectangle for its background colour if one
\* is set, then its Text command if it is an AnonymousInline.
C23_DisplayListOrder ==
  treePc = "rastered" =>
    Painted(display_commands) = CommandsOf(PreOrder(Unwrap(root_box), 0))

\* A block with a background, a text before it and one inside it, and four
\* borders of different colours somewhere in the tree.
C23_Witness ==
  /\ treePc = "rastered"
  /\ Len(display_commands) >= 8
  /\ \E i, j, k \in DOMAIN display_commands :
       /\ i < j /\ j < k
       /\ display_commands[i].kind = "Text"
       /\ display_commands[j].kind = "Rectangle"
       /\ display_commands[k].kind = "Text"
  /\ \E i \in DOMAIN display_commands :
       /\ i + 4 \in DOMAIN display_commands
       /\ [d \in 0..4 |-> display_commands[i + d].color]
            = [d \in 0..4 |-> <<red, green, blue, grey, green>>[d + 1]]

\* ------------------------------------------------ font context: properties
\* C24 (font context initialise-once): TEXT_LAYOUTS is initialised at most
\* once (it holds no more than one TextLayout and, once it holds one, keeps
\* holding it through every later re-render), it is only touched by
\* raster_thread inside get_layout_tree, under the RasterWindow lock and so by
\* no second thread at the same time, and layout never finds it empty:
\* raster_thread does not panic on well-formed markup.
C24_FontContextOnce ==
  [][/\ Len(TEXT_LAYOUTS') <= 1
     /\ TEXT_LAYOUTS # <<>> => TEXT_LAYOUTS' # <<>>
     /\ TEXT_LAYOUTS' # TEXT_LAYOUTS =>
          /\ rasterPc = "layout" /\ raster_window.holder = "raster"
          /\ mainPc # "window"
     /\ (rasterPc = "layout" /\ rasterPc' = "lock_display") => TEXT_LAYOUTS' # <<>>
     /\ NoFailure => status'["raster"] # "panicked"]_vars

\* Two frames have been laid out and written, the second with the context
\* the first one initialised.
C24_Witness ==
  /\ Len(writes) = 2
  /\ Len(TEXT_LAYOUTS) = 1
  /\ Quiescent

\* ------------------------------------------------------- locks: properties
Locks == {"raster_window", "display_commands"}

\* Who holds a lock.
Holder(l) == IF l = "raster_window" THEN raster_window.holder ELSE display_lock

\* The lock a thread is blocked on, if any: raster_thread at its two lock()
\* calls, the main thread at the lock() of start_window and of draw_commands.
WaitsFor(t, l) ==
  /\ Holder(l) \notin {"none", t}
  /\ IF t = "raster"
     THEN /\ status["raster"] = "running"
          /\ \/ rasterPc = "lock_window" /\ l = "raster_window"
             \/ rasterPc = "lock_display" /\ l = "display_commands"
     ELSE \/ mainPc = "init" /\ l = "raster_window"
          \/ mainPc = "idle" /\ l = "display_commands"

NoCircularWait ==
  \A l1, l2 \in Locks :
    ~(/\ WaitsFor("raster", l1) /\ Holder(l1) = "main"
      /\ WaitsFor("main", l2) /\ Holder(l2) = "raster")

\* C26 (deadlock freedom): raster_thread and the main thread never each wait
\* for a lock the other holds, and under fair scheduling every lock that is
\* held is released again.
C26_DeadlockFreedom ==
  /\ []NoCircularWait
  /\ \A l \in Locks : (Holder(l) # "none") ~> (Holder(l) = "none")

\* raster_thread holds the RasterWindow lock and is about to take the
\* display-list lock while the main thread is blocked in start_window.
C26_Witness ==
  /\ raster_window.holder = "raster" /\ rasterPc = "lock_display"
  /\ WaitsFor("main", "raster_window")

\* ------------------------------------------------------------ inline layout
\* Styled trees with text: text runs, spans around text (nested, and one
\* around a block), blocks with text (one with an explicit height, one with
\* margins, one of a width that is no whole number), and an element that is
\* not displayed.
style_tall == block_style(("height" :> Some(parse_value(text_10))))
text_30_3 == <<"3", "0", ".", "3">>
style_narrow == block_style(("width" :> Some(parse_value(text_30_3))))

span(children) == styled_element(<<>>, children)

InlineChildren ==
  { styled_text(TextRuns[n]) : n \in DOMAIN TextRuns }
  \cup { span(<<styled_text("t")>>),
         span(<<span(<<styled_text("t")>>), styled_text("t"), styled_text("ttt")>>),
         span(<<styled_element(style_plain, <<styled_text("t")>>)>>),
         styled_element(style_plain, <<styled_text("tt")>>),
         styled_element(style_tall, <<styled_text("t")>>),
         styled_element(style_margins, <<styled_text("t"), styled_text("t")>>),
         styled_element(style_narrow,
                        <<styled_text("t"), styled_text("tt"), styled_text("t")>>),
         styled_element(style_fractional, <<>>),
         styled_element(display_is(str_none), <<styled_text("t")>>) }

InlineRoots ==
  { styled_element(st, kids) :
      st \in {style_plain, style_tall},
      kids \in UNION { [1..k -> InlineChildren] : k \in 0..MaxChildren } }

\* Content widths of the initial containing block: none at all, room for
\* two glyphs, and room for every line of the documents.
InlineWidths == {0, 20, 100}

InlineInit ==
  /\ PipeInit
  /\ CascadeIdle
  /\ doc = None
  /\ looked_up = None
  /\ root_box = None
  /\ \E r \in InlineRoots, w \in InlineWidths :
       /\ styled = StyledTree(r, None, <<>>)
       /\ tree_init_box = Some(ContainingBlock(w))
  /\ treePc = "styled"

SpecInline == InlineInit /\ [][LayoutNext]_vars

\* ------------------------------------------------ inline layout: properties
LayoutDone == treePc \in {"laid", "panicked"}

LineBoxes == {b \in Boxes(Unwrap(root_box)) : b.box_type = "Line"}

\* The Lines among the children of a box, in order.
LinesOf(b) == SelectSeq(b.children, LAMBDA c : c.box_type = "Line")

\* C27 (non-empty line boxes): every Line that calc_block_line_box produces
\* holds at least one box, all of them AnonymousInline, whatever the widths
\* of the fragments and of the block, so calc_line_box_layout never panics.
C27_NonEmptyLines ==
  LayoutDone =>
    /\ treePc # "panicked"
    /\ \A l \in LineBoxes :
         /\ l.children # <<>>
         /\ \A i \in DOMAIN l.children : l.children[i].box_type = "AnonymousInline"

\* What the code does: a Line stays empty exactly when the first fragment of
\* a block is wider than the block.
C27_EmptyLineOnlyFirst ==
  LayoutDone =>
    \A b \in Boxes(Unwrap(root_box)) :
      \A k \in DOMAIN LinesOf(b) :
        LinesOf(b)[k].children = <<>> =>
          /\ k = 1 /\ Len(LinesOf(b)) >= 2
          /\ f32_gt(LinesOf(b)[2].children[1].box_model.content.width,
                    b.box_model.content.width)

\* The boxes that calc_block_line_box gave Lines.
BoxesWithLines == {b \in Boxes(Unwrap(root_box)) : LinesOf(b) # <<>>}

\* Node a comes before node b in the document.
DocumentOrder(a, b) ==
  \E n \in 1..Len(a) :
     /\ n <= Len(b) /\ a[n] < b[n]
     /\ \A k \in 1..(n - 1) : a[k] = b[k]

RECURSIVE FragmentsOf(_)
FragmentsOf(lines) ==
  IF lines = <<>> THEN <<>> ELSE Head(lines).children \o FragmentsOf(Tail(lines))

FragmentWidth(line, i) == line.children[i].box_model.content.width

\* C22 (line packing): in every block the fragments are in document order
\* over its Lines; a fragment sits in the Line of the fragment before it
\* exactly when the width that Line had left was at least its own, else it
\* opens the next Line; every Line is as wide as the block's content; a
\* fragment starts, from the left edge of its Line, at the sum of the widths
\* of the fragments before it in the Line; and only a Line of a single
\* fragment holds more than its width.
C22_LinePacking ==
  LayoutDone =>
    \A b \in BoxesWithLines :
      LET lines == LinesOf(b)
          frags == FragmentsOf(lines)
      IN  /\ \A i, j \in DOMAIN frags : i < j => DocumentOrder(frags[i].node, frags[j].node)
          /\ \A k \in DOMAIN lines :
               LET line == lines[k]
               IN  /\ line.box_model.content.width = b.box_model.content.width
                   /\ \A i \in DOMAIN line.children :
                        /\ line.children[i].box_model.content.x
                             = f32_add(sum_content_width(line.children, i - 1),
                                       line.box_model.content.x)
                        /\ i > 1 =>
                             f32_ge(f32_sub(line.box_model.content.width,
                                            sum_content_width(line.children, i - 1)),
                                    FragmentWidth(line, i))
                   /\ f32_gt(sum_content_width(line.children, Len(line.children)),
                             line.box_model.content.width)
                        => Len(line.children) = 1
                   /\ k > 1 =>
                        f32_lt(f32_sub(lines[k - 1].box_model.content.width,
                                       sum_content_width(lines[k - 1].children,
                                                         Len(lines[k - 1].children))),
                               FragmentWidth(line, 1))

\* A block packed into two Lines: two fragments share the first, the third
\* did not fit after them and is wider than its own Line.
C22_Witness ==
  /\ treePc = "laid"
  /\ \E b \in BoxesWithLines :
       /\ Len(LinesOf(b)) = 2
       /\ Len(LinesOf(b)[1].children) = 2
       /\ Len(LinesOf(b)[2].children) = 1
       /\ f32_gt(FragmentWidth(LinesOf(b)[2], 1), b.box_model.content.width)

AnonymousBlocks == {b \in Boxes(Unwrap(root_box)) : b.box_type = "AnonymousBlock"}

\* The heights of the first n Lines, added up in order.
RECURSIVE sum_line_heights(_, _)
sum_line_heights(lines, n) ==
  IF n = 0 THEN f32_zero
  ELSE f32_add(sum_line_heights(lines, n - 1), lines[n].box_model.content.height)

\* C28 (anonymous wrapper height): after layout the content height of every
\* AnonymousBlock is the sum of the heights of its Lines, whatever height
\* the element that owns the wrapper declares, and the wrapper has no
\* padding, border or margin.
C28_WrapperHeight ==
  treePc = "laid" =>
    \A b \in AnonymousBlocks :
      /\ b.box_model.content.height
           = sum_line_heights(LinesOf(b), Len(LinesOf(b)))
      /\ b.box_model.padding = EdgeSizes_default
      /\ b.box_model.border = EdgeSizes_default
      /\ b.box_model.margin = EdgeSizes_default

\* What the code does: the wrapper takes the owner's explicit height when
\* there is one, the sum of its Lines otherwise; its edges are zero.
C28_WrapperHeightOrOwner ==
  treePc = "laid" =>
    \A b \in AnonymousBlocks :
      /\ b.box_model.content.height
           = (IF "height" \in DOMAIN StyledNode(styled, b.node).style
              THEN StyledNode(styled, b.node).style["height"].num
              ELSE sum_line_heights(LinesOf(b), Len(LinesOf(b))))
      /\ b.box_model.padding = EdgeSizes_default
      /\ b.box_model.border = EdgeSizes_default
      /\ b.box_model.margin = EdgeSizes_default

\* The text nodes of the styled tree that are displayed, in document order.
RECURSIVE DisplayedTexts(_)
RECURSIVE DisplayedTextsOf(_, _)
DisplayedTexts(id) ==
  LET n == StyledNode(styled, id)
  IN  IF n.kind = "Text" THEN <<id>>
      ELSE IF get_display(styled, id) = "None" THEN <<>>
      ELSE DisplayedTextsOf(n.children, 1)
DisplayedTextsOf(children, i) ==
  IF i > Len(children) THEN <<>>
  ELSE DisplayedTexts(children[i]) \o DisplayedTextsOf(children, i + 1)

\* The nodes of the AnonymousInline leaves of the box tree, in pre-order.
LeafNodes ==
  LET leaves == SelectSeq(PreOrder(Unwrap(root_box), 0),
                          LAMBDA b : b.box_type = "AnonymousInline")
  IN  [i \in DOMAIN leaves |-> leaves[i].node]

\* C29 (no content loss in flattening): for a styled tree with a block root,
\* the AnonymousInline leaves of the laid-out box tree are, in order and once
\* each, the text nodes that have no display: none ancestor, text inside a
\* block nested in an inline element included.
C29_NoContentLoss ==
  treePc = "laid" => LeafNodes = DisplayedTexts(<<>>)

\* Text is lost only below a block that sits inside an inline element.
BlockInInline(id) ==
  \E a, c \in styled :
     /\ IsPrefix(c.id, id) /\ get_display(styled, c.id) = "Block"
     /\ Len(a.id) < Len(c.id) /\ IsPrefix(a.id, c.id)
     /\ a.kind = "Element" /\ get_display(styled, a.id) = "Inline"

C29_LossOnlyInBlockInInline ==
  treePc = "laid" =>
    LeafNodes = SelectSeq(DisplayedTexts(<<>>), LAMBDA id : ~BlockInInline(id))

\* --------------------------------------------------- stacking: properties
\* The bottom edge of a rectangle.
Bottom(rect) == f32_add(rect.y, rect.height)

\* The boxes whose children layout stacked: blocks and anonymous blocks.
StackingBoxes ==
  {b \in Boxes(Unwrap(root_box)) : b.box_type \in {"Block", "AnonymousBlock"}}

\* The children of a box that were laid out: blocks, anonymous blocks, Lines.
LaidOutChildren(b) ==
  SelectSeq(b.children, LAMBDA c : c.box_type \in {"Block", "AnonymousBlock", "Line"})

Stacked(b) ==
  LET kids == LaidOutChildren(b)
  IN  \A i \in DOMAIN kids :
        margin_box(kids[i].box_model).y
          = (IF i = 1 THEN b.box_model.content.y
             ELSE Bottom(margin_box(kids[i - 1].box_model)))

====
